---- MODULE Spec2Model ----
(***************************************************************************)
(* The rate-limited, retrying request executor of the Wormly API client    *)
(* (internal/client/client.go): Client.Do, Client.makeFormRequest, the     *)
(* token-bucket limiter they share, the backoff computation and the error  *)
(* classifiers.                                                            *)
(*                                                                         *)
(* Time is discrete.  A step of a call takes no time; time passes only     *)
(* while every running call is blocked in limiter.Wait or in time.Sleep.   *)
(* A request is therefore dispatched at the instant its call got the       *)
(* limiter's token (first attempt) or woke from its backoff sleep (retry). *)
(***************************************************************************)
EXTENDS Integers, Sequences, FiniteSets, TLC

(***************************************************************************)
(* Bounds of the model.                                                    *)
(***************************************************************************)
MaxRetriesB == 2
MaxTime == 4
MaxDuration == 6
MaxSeqLen == 4

\* The callers of one client instance, numbered in the order they call.
Calls == {1, 2}

(***************************************************************************)
(* Program constants.                                                      *)
(***************************************************************************)
StatusOK == 200
StatusBadRequest == 400
StatusNotFound == 404
StatusTooManyRequests == 429
StatusInternalServerError == 500
StatusBadGateway == 502
StatusServiceUnavailable == 503
StatusGatewayTimeout == 504

\* The durations of TestClient_Do_BackoffCap, in nanoseconds, and its multiplier.
Ms100 == 100000000
Ms200 == 200000000
Triple == 3

VARIABLES
    maxRetries,        \* Client.maxRetries
    initialBackoff,    \* Client.initialBackoff
    backoffMultiplier, \* Client.backoffMultiplier, the fraction <<num, den>>
    maxBackoff,        \* Client.maxBackoff
    tokenInterval,     \* 1/requestsPerSecond: the time one token takes to refill
    apiKey,            \* Client.apiKey
    debugEnabled,      \* Client.debugEnabled
    transport,         \* what the HTTP transport and the server can answer
    callerHeader,      \* per call: the header of the request handed to Do
    command,           \* per call: the command handed to makeFormRequest
    params,            \* per call: the params handed to makeFormRequest
    now,               \* the clock
    limNext,           \* the limiter (a bucket of one token): when the token is next available
    kind,              \* per call: "Do" or "Form" ("" before the call starts)
    pc,                \* per call: idle, wait, attempt, sleep, done
    ctx,               \* per call: the caller's context: live, canceled, expired
    attempt,           \* per call: the loop variable attempt
    backoff,           \* per call: the local backoff
    until,             \* per call: the time limiter.Wait or time.Sleep ends
    acquired,          \* per call: limiter tokens obtained
    lastErr,           \* per call: the local lastErr
    log,               \* per call: the outcome of every attempt, in order
    result,            \* per call: what the call returned
    header,            \* per call: the header of the request sent
    form,              \* per call: the form data built by makeFormRequest
    reqBody,           \* per call: the request's body: none, unread, consumed
    sleeps,            \* per call: the duration of every time.Sleep, in order
    logged,            \* per call: the lines printed through Client.logger
    bodies,            \* per call: the response bodies opened and closed, in order
    fnIn,              \* the pure functions: <<function, argument>> to apply
    fnOut,             \* the pure functions: <<value returned>>, <<>> before
    backoffSeq,        \* successive backoffs computed from initialBackoff
    providerConfig,    \* the attributes of the provider block handed to Configure
    resourceData,      \* ConfigureResponse.ResourceData: "nil" or "client"
    diags,             \* the error diagnostics of the handler's response, in order
    api,               \* the operation of Client called, and what the server's JSON holds
    returned,          \* <<what the operation returned>>, <<>> before it returns
    resource,          \* the kind of the Terraform resource: host, sensor, period, mute
    state,             \* the state Terraform holds for the resource, Null when none
    handler            \* the last handler run: its request, the operations it called

vars == <<maxRetries, initialBackoff, backoffMultiplier, maxBackoff, tokenInterval,
          apiKey, debugEnabled, transport, callerHeader, command, params,
          now, limNext, kind, pc, ctx, attempt, backoff, until, acquired, lastErr,
          log, result, header, form, reqBody, sleeps, logged, bodies,
          fnIn, fnOut, backoffSeq, providerConfig, resourceData, diags,
          api, returned, resource, state, handler>>

cfgVars == <<maxRetries, initialBackoff, backoffMultiplier, maxBackoff, tokenInterval,
             apiKey, debugEnabled>>
\* The inputs: the server's behaviour and the arguments of each call.
inVars == <<transport, callerHeader, command, params>>
fnVars == <<fnIn, fnOut, backoffSeq>>
\* The provider: its configuration, the client it hands on, its diagnostics.
apiVars == <<api, returned>>
resVars == <<resource, state, handler>>
provVars == <<providerConfig, resourceData, diags, apiVars, resVars>>
callVars == <<now, limNext, kind, pc, ctx, attempt, backoff, until, acquired, lastErr,
              log, result, header, form, reqBody, sleeps, logged, bodies>>

Max(a, b) == IF a >= b THEN a ELSE b
Min(a, b) == IF a <= b THEN a ELSE b

(***************************************************************************)
(* Errors.  A Go error value is the chain of its wrappers, outermost       *)
(* first, ending in a leaf; nil is the empty chain.                        *)
(***************************************************************************)
NilErr == <<>>

\* The status codes a server answers with.
StatusCodes == 100..599

(***************************************************************************)
(* isTransientHTTPError (client.go:193-203).                               *)
(***************************************************************************)
isTransientHTTPErrorNo429(statusCode) ==
    statusCode \in {StatusInternalServerError, StatusBadGateway,
                    StatusServiceUnavailable, StatusGatewayTimeout}

isTransientHTTPErrorAnyFailure(statusCode) ==
    statusCode >= StatusBadRequest

isTransientHTTPError(statusCode) ==
    CASE statusCode = StatusTooManyRequests -> TRUE
      [] statusCode = StatusInternalServerError -> TRUE
      [] statusCode = StatusBadGateway -> TRUE
      [] statusCode = StatusServiceUnavailable -> TRUE
      [] statusCode = StatusGatewayTimeout -> TRUE
      [] OTHER -> FALSE

(***************************************************************************)
(* calculateNextBackoff (client.go:155-161).  The multiplier is a float64, *)
(* here the fraction num/den; time.Duration(float64(current) * m)          *)
(* truncates the product toward zero.                                      *)
(***************************************************************************)
TruncDiv(n, d) == IF n >= 0 THEN n \div d ELSE -((-n) \div d)

calculateNextBackoffNoCap(current) ==
    TruncDiv(current * backoffMultiplier[1], backoffMultiplier[2])

calculateNextBackoff(current) ==
    LET next == TruncDiv(current * backoffMultiplier[1], backoffMultiplier[2])
    IN  IF next > maxBackoff THEN maxBackoff ELSE next

(***************************************************************************)
(* isTransientNetworkError (client.go:164-190).  The type assertions are   *)
(* decided by the method sets of the Go types: *url.Error, *net.OpError,   *)
(* syscall.Errno, *net.DNSError and context.DeadlineExceeded all have      *)
(* Timeout() and Temporary() and so satisfy net.Error.                     *)
(***************************************************************************)
Wrappers == {"url.Error", "net.OpError", "os.SyscallError"}
Errnos == {"ECONNREFUSED", "ECONNRESET", "ETIMEDOUT"}

\* The leaf, or the wrapper, at the head of the chain has method Timeout().
HasTimeout(err) ==
    /\ err # NilErr
    /\ Head(err) \in {"url.Error", "net.OpError", "os.SyscallError", "timeoutError",
                      "temporaryError", "DNSError", "context.DeadlineExceeded"}
                     \cup Errnos

\* err satisfies the interface net.Error (Error, Timeout and Temporary).
IsNetError(err) ==
    /\ HasTimeout(err)
    /\ Head(err) # "os.SyscallError"

RECURSIVE TimeoutOf(_)
\* err.Timeout(), for an err that has the method.
TimeoutOf(err) ==
    CASE Head(err) \in Wrappers ->
             HasTimeout(Tail(err)) /\ TimeoutOf(Tail(err))
      [] Head(err) \in {"timeoutError", "context.DeadlineExceeded", "ETIMEDOUT"} -> TRUE
      [] OTHER -> FALSE

isTransientNetworkErrorAnyNetError(err) ==
    err # NilErr /\ IsNetError(err)

RECURSIVE isTransientNetworkError(_)
isTransientNetworkError(err) ==
    IF err = NilErr THEN FALSE
    ELSE IF IsNetError(err) THEN TimeoutOf(err)
    ELSE IF Head(err) = "url.Error" THEN isTransientNetworkError(Tail(err))
    ELSE IF Head(err) = "net.OpError"
         THEN Len(err) = 2 /\ err[2] \in Errnos
    ELSE FALSE

(***************************************************************************)
(* What one round trip of httpClient.Do can give: a response with a status *)
(* (err = nil) or no response and a *url.Error.                            *)
(***************************************************************************)
ServerStatuses == {StatusOK, StatusNotFound, StatusInternalServerError}
TransportErrors == {<<"url.Error", "net.OpError", "ETIMEDOUT">>,
                    <<"url.Error", "net.OpError", "ECONNREFUSED">>}
\* The body of a response: valid JSON for the target, something else, or a
\* body whose read fails.
Bodies == {"json", "notjson", "unreadable"}
\* statuses and errors are the answers a round trip can give; the responses
\* with a status of bodied come with every body of Bodies, the others with JSON.
Transport == [statuses |-> ServerStatuses, errors |-> TransportErrors,
              bodied |-> {StatusOK}]
Outcomes == [status : transport.statuses, err : {NilErr}, body : {"json"}]
            \cup [status : {0}, err : transport.errors, body : {"none"}]
\* makeFormRequest reads the body of the response, Do hands it on unread.
FormOutcomes == Outcomes \cup [status : transport.bodied, err : {NilErr}, body : Bodies]

\* The error httpClient.Do returns for a request whose context is done.
CtxErr(c) == IF ctx[c] = "canceled" THEN <<"url.Error", "context.Canceled">>
             ELSE <<"url.Error", "context.DeadlineExceeded">>

\* The request of makeFormRequest is built once, with a *bytes.Buffer as body
\* (client.go:230), and handed to httpClient.Do again as it is on every retry:
\* a round trip that got as far as a response has read the buffer to its end,
\* and the next httpClient.Do finds ContentLength > 0 and an empty body.  On
\* a new connection it writes nothing and returns this error.  On a
\* connection kept alive from an earlier response the transport takes the
\* failed write for a dead connection, gets the body again from the
\* request's GetBody and sends the request whole on another connection.
\* Which of the two happens is up to the server and the connection pool.
BodyGoneErr == <<"url.Error", "http: ContentLength with Body length 0">>

(***************************************************************************)
(* http.Header: a map from a header's name to its list of values.  Get     *)
(* gives the first value, "" when there is none; Set replaces the list.    *)
(***************************************************************************)
HeaderNames == {"Authorization", "User-Agent", "Content-Type"}
NoHeader == [h \in HeaderNames |-> <<>>]
Get(hdr, name) == IF hdr[name] = <<>> THEN "" ELSE hdr[name][1]
Set(hdr, name, value) == [hdr EXCEPT ![name] = <<value>>]

userAgent == "terraform-provider-wormly"
baseURL == "https://api.wormly.com"

NoResult == [resp |-> 0, kind |-> "none", status |-> 0, cause |-> NilErr]
Returned(resp, k, st, cause) == [resp |-> resp, kind |-> k, status |-> st, cause |-> cause]

(***************************************************************************)
(* New (client.go:62-86): the configuration is stored as given, without    *)
(* validation; the limiter starts with its one token available.            *)
(***************************************************************************)
NoCalls ==
    /\ now = 0
    /\ limNext = 0
    /\ kind = [c \in Calls |-> ""]
    /\ pc = [c \in Calls |-> "idle"]
    /\ ctx = [c \in Calls |-> "live"]
    /\ attempt = [c \in Calls |-> 0]
    /\ backoff = [c \in Calls |-> 0]
    /\ until = [c \in Calls |-> 0]
    /\ acquired = [c \in Calls |-> 0]
    /\ lastErr = [c \in Calls |-> NoResult]
    /\ log = [c \in Calls |-> <<>>]
    /\ result = [c \in Calls |-> NoResult]
    /\ header = callerHeader
    /\ form = [c \in Calls |-> [k \in {} |-> ""]]
    /\ reqBody = [c \in Calls |-> "none"]
    /\ sleeps = [c \in Calls |-> <<>>]
    /\ logged = [c \in Calls |-> <<>>]
    /\ bodies = [c \in Calls |-> <<>>]

\* Calls with plain arguments: a GET request without headers of the caller's
\* (client_test.go:104), a command with one parameter.
PlainCalls ==
    /\ callerHeader = [c \in Calls |-> NoHeader]
    /\ command = [c \in Calls |-> "getHostStatus"]
    /\ params = [c \in Calls |-> [k \in {"hostid"} |-> "42"]]

NoFn ==
    /\ fnIn = <<"none", 0>>
    /\ fnOut = <<>>
    /\ backoffSeq = <<>>

\* An attribute of a configuration, a plan or a state: <<>> when it is null (or
\* unknown), <<v>> when it has the value v.
Null == <<>>
IsSet(v) == v # Null
Known(v) == <<v>>

ConfigAttributes == {"api_key", "requests_per_second", "max_retries", "initial_backoff",
                     "backoff_multiplier", "max_backoff", "debug"}

\* No operation of Client is called.
NoApi ==
    /\ api = [op |-> "none"]
    /\ returned = <<>>

\* The client in hand, built from a provider block that sets the API key only.
ClientBuilt ==
    /\ providerConfig = [a \in ConfigAttributes |-> IF a = "api_key" THEN Known("key-1") ELSE Null]
    /\ resourceData = "client"
    /\ diags = <<>>

\* No handler of a resource has run.
NoHandler == [name |-> "none", prior |-> Null, plan |-> Null, sent |-> <<>>]
NoResource ==
    /\ resource = "none"
    /\ state = Null
    /\ handler = NoHandler

NoProvider ==
    /\ ClientBuilt
    /\ NoApi
    /\ NoResource

Init ==
    /\ maxRetries \in (0..MaxRetriesB) \cup {-1}
    /\ initialBackoff = 1
    /\ backoffMultiplier = <<3, 1>>
    /\ maxBackoff = 2
    /\ tokenInterval = 2
    /\ apiKey = "key-1"
    /\ debugEnabled = FALSE
    /\ transport = Transport
    /\ PlainCalls
    /\ NoCalls
    /\ NoProvider
    /\ NoFn

(***************************************************************************)
(* The caller's context is cancelled, or its deadline expires.  A call's  *)
(* own steps take no time, so this happens before the call starts or while *)
(* it is blocked in limiter.Wait or in time.Sleep.                         *)
(***************************************************************************)
CtxDone(c) ==
    /\ pc[c] \in {"idle", "wait", "sleep"}
    /\ ctx[c] = "live"
    /\ \E how \in {"canceled", "expired"} : ctx' = [ctx EXCEPT ![c] = how]
    /\ UNCHANGED <<cfgVars, inVars, provVars, fnVars, bodies, now, limNext, kind, pc, attempt, backoff, until,
                   acquired, lastErr, log, result, header, form, reqBody, sleeps, logged>>

(***************************************************************************)
(* Client.logger.Printf, called only when debugEnabled (client.go:110-112,  *)
(* 221-228, ...).  A line is its format followed by its arguments as text. *)
(***************************************************************************)
Printf(c, lines) ==
    logged' = [logged EXCEPT ![c] = IF debugEnabled THEN @ \o lines ELSE @]

ParamOrder == <<"alertsmuted", "cmd", "hostid", "hsid", "key", "name", "periodid",
                "response", "testinterval", "url">>

\* A map printed with %+v: its keys in order, each with its value.
MapArgs(m) ==
    LET ks == SelectSeq(ParamOrder, LAMBDA k : k \in DOMAIN m)
    IN  [i \in 1..(2 * Len(ks)) |-> IF i % 2 = 1 THEN ks[(i + 1) \div 2]
                                     ELSE m[ks[i \div 2]]]

\* The body as io.ReadAll returns it: what came before the read failed.
BodyRead(body) == IF body = "unreadable" THEN "partial" ELSE body

(***************************************************************************)
(* The form data of makeFormRequest (client.go:212-219): the three fixed   *)
(* fields are set first and every parameter of the caller is set after     *)
(* them, replacing a fixed field of the same name.                         *)
(***************************************************************************)
FixedFields(c) ==
    [k \in {"cmd", "key", "response"} |->
        CASE k = "cmd" -> command[c]
          [] k = "key" -> apiKey
          [] OTHER -> "json"]

FormDataFixedLast(c) ==
    [k \in {"cmd", "key", "response"} \cup DOMAIN params[c] |->
        IF k \in {"cmd", "key", "response"} THEN FixedFields(c)[k] ELSE params[c][k]]

FormData(c) ==
    [k \in {"cmd", "key", "response"} \cup DOMAIN params[c] |->
        IF k \in DOMAIN params[c] THEN params[c][k] ELSE FixedFields(c)[k]]

\* safeParams (client.go:223-226): a copy of params.
SafeParamsWholeForm(c) == FormData(c)

SafeParams(c) == params[c]

\* client.go:227.
FormRequestLine(c) ==
    <<"Wormly API request - command: %s, params: %+v", command[c]>>
        \o MapArgs(SafeParams(c))

\* client.go:111, 244.
AttemptLine(c) ==
    IF kind[c] = "Do"
    THEN <<"Attempt %d: Making request to %s", ToString(attempt[c]), baseURL>>
    ELSE <<"Attempt %d: Making form request to %s with command %s",
           ToString(attempt[c]), baseURL, command[c]>>

\* client.go:122, 138, 255, 271.
RetryLine(c, failure) ==
    IF failure.kind = "net"
    THEN <<"Transient network error: %v. Retrying in %v">> \o failure.cause
             \o <<ToString(backoff[c])>>
    ELSE <<"Transient HTTP error: %v. Retrying in %v", ToString(failure.status),
           ToString(backoff[c])>>

(***************************************************************************)
(* Header injection of Client.Do (client.go:96-104), and the headers of    *)
(* the request makeFormRequest builds (client.go:236-237).                 *)
(***************************************************************************)
InjectHeadersAlways(hdr) ==
    Set(Set(Set(hdr, "Authorization", "Bearer " \o apiKey), "User-Agent", userAgent),
        "Content-Type", "application/json")

InjectHeaders(hdr) ==
    LET a == IF Get(hdr, "Authorization") = ""
             THEN Set(hdr, "Authorization", "Bearer " \o apiKey) ELSE hdr
        u == IF Get(a, "User-Agent") = "" THEN Set(a, "User-Agent", userAgent) ELSE a
    IN  IF Get(u, "Content-Type") = "" THEN Set(u, "Content-Type", "application/json")
        ELSE u

FormHeaders ==
    Set(Set(NoHeader, "Content-Type", "application/x-www-form-urlencoded"),
        "User-Agent", userAgent)

(***************************************************************************)
(* The call has the limiter's token.  Do injects its headers; makeForm-    *)
(* Request builds the form data and the request (client.go:211-237).  The  *)
(* local retry state is created (client.go:106-109, 239-242) and the loop  *)
(* is entered, or skipped when maxRetries < 0 (client.go:151, 311).        *)
(***************************************************************************)
EnterLoop(c, k) ==
    /\ acquired' = [acquired EXCEPT ![c] = @ + 1]
    /\ attempt' = [attempt EXCEPT ![c] = 0]
    /\ backoff' = [backoff EXCEPT ![c] = initialBackoff]
    /\ header' = [header EXCEPT ![c] = IF k = "Do" THEN InjectHeaders(@) ELSE FormHeaders]
    /\ form' = [form EXCEPT ![c] = IF k = "Form" THEN FormData(c) ELSE @]
    /\ reqBody' = [reqBody EXCEPT ![c] = IF k = "Form" THEN "unread" ELSE "none"]
    /\ Printf(c, IF k = "Form" THEN <<FormRequestLine(c)>> ELSE <<>>)
    /\ IF 0 <= maxRetries
       THEN /\ pc' = [pc EXCEPT ![c] = "attempt"]
            /\ result' = result
       ELSE /\ pc' = [pc EXCEPT ![c] = "done"]
            /\ result' = [result EXCEPT ![c] =
                   Returned(0, "exhausted", lastErr[c].status, lastErr[c].cause)]

(***************************************************************************)
(* The call starts: limiter.Wait(ctx) (client.go:91, 208).  A context      *)
(* already done fails the wait at once; otherwise the token is reserved    *)
(* for the earliest time the bucket allows, and the call goes on at once   *)
(* or blocks until then.                                                   *)
(***************************************************************************)
StartWithoutCtxCheck(c, k) ==
    /\ pc[c] = "idle"
    /\ \A d \in Calls : d < c => pc[d] # "idle"
    /\ kind' = [kind EXCEPT ![c] = k]
    /\ LET grant == Max(now, limNext)
       IN  /\ limNext' = grant + tokenInterval
           /\ until' = [until EXCEPT ![c] = grant]
           /\ IF grant = now
              THEN EnterLoop(c, k)
              ELSE /\ pc' = [pc EXCEPT ![c] = "wait"]
                   /\ UNCHANGED <<acquired, attempt, backoff, result, header, form,
                                  reqBody, logged>>
    /\ UNCHANGED <<cfgVars, inVars, provVars, fnVars, bodies, now, ctx, lastErr, log, sleeps>>

StartUnlimited(c, k) ==
    /\ pc[c] = "idle"
    /\ \A d \in Calls : d < c => pc[d] # "idle"
    /\ kind' = [kind EXCEPT ![c] = k]
    /\ IF ctx[c] # "live"
       THEN /\ pc' = [pc EXCEPT ![c] = "done"]
            /\ result' = [result EXCEPT ![c] = Returned(0, "limiter", 0, NilErr)]
            /\ UNCHANGED <<limNext, until, acquired, attempt, backoff, header, form,
                           reqBody, logged>>
       ELSE /\ limNext' = now
            /\ until' = [until EXCEPT ![c] = now]
            /\ EnterLoop(c, k)
    /\ UNCHANGED <<cfgVars, inVars, provVars, fnVars, bodies, now, ctx, lastErr, log, sleeps>>

Start(c, k) ==
    /\ pc[c] = "idle"
    /\ \A d \in Calls : d < c => pc[d] # "idle"
    /\ kind' = [kind EXCEPT ![c] = k]
    /\ IF ctx[c] # "live"
       THEN /\ pc' = [pc EXCEPT ![c] = "done"]
            /\ result' = [result EXCEPT ![c] = Returned(0, "limiter", 0, NilErr)]
            /\ UNCHANGED <<limNext, until, acquired, attempt, backoff, header, form,
                           reqBody, logged>>
       ELSE LET grant == Max(now, limNext)
            IN  /\ limNext' = grant + tokenInterval
                /\ until' = [until EXCEPT ![c] = grant]
                /\ IF grant = now
                   THEN EnterLoop(c, k)
                   ELSE /\ pc' = [pc EXCEPT ![c] = "wait"]
                        /\ UNCHANGED <<acquired, attempt, backoff, result, header, form,
                                       reqBody, logged>>
    /\ UNCHANGED <<cfgVars, inVars, provVars, fnVars, bodies, now, ctx, lastErr, log, sleeps>>

\* The reservation's timer fires: limiter.Wait returns nil.
Granted(c) ==
    /\ pc[c] = "wait"
    /\ now >= until[c]
    /\ EnterLoop(c, kind[c])
    /\ UNCHANGED <<cfgVars, inVars, provVars, fnVars, bodies, now, limNext, kind, ctx, until, lastErr, log,
                   sleeps>>

\* The context is done while the call waits: the reservation is cancelled (its
\* token goes back when no later reservation was made) and Wait returns the error.
WaitCancelled(c) ==
    /\ pc[c] = "wait"
    /\ ctx[c] # "live"
    /\ pc' = [pc EXCEPT ![c] = "done"]
    /\ result' = [result EXCEPT ![c] = Returned(0, "limiter", 0, NilErr)]
    /\ limNext' = IF now < until[c] /\ limNext = until[c] + tokenInterval
                  THEN until[c] ELSE limNext
    /\ UNCHANGED <<cfgVars, inVars, provVars, fnVars, bodies, now, kind, ctx, attempt, backoff, until,
                   acquired, lastErr, log, header, form, reqBody, sleeps, logged>>

(***************************************************************************)
(* After a transient failure (client.go:120-127, 136-143; 253-260,         *)
(* 269-276): with retries left the call sleeps for the current backoff;    *)
(* without, it returns the error.                                          *)
(***************************************************************************)
RetryOrFailOneFewer(c, failure) ==
    /\ lastErr' = [lastErr EXCEPT ![c] = failure]
    /\ IF attempt[c] + 1 < maxRetries
       THEN /\ pc' = [pc EXCEPT ![c] = "sleep"]
            /\ until' = [until EXCEPT ![c] = now + backoff[c]]
            /\ sleeps' = [sleeps EXCEPT ![c] = Append(@, backoff[c])]
            /\ Printf(c, <<AttemptLine(c), RetryLine(c, failure)>>)
            /\ result' = result
       ELSE /\ pc' = [pc EXCEPT ![c] = "done"]
            /\ until' = until
            /\ sleeps' = sleeps
            /\ Printf(c, <<AttemptLine(c)>>)
            /\ result' = [result EXCEPT ![c] = failure]

RetryOrFailSleepingFirst(c, failure) ==
    /\ lastErr' = [lastErr EXCEPT ![c] = failure]
    /\ pc' = [pc EXCEPT ![c] = "sleep"]
    /\ until' = [until EXCEPT ![c] = now + backoff[c]]
    /\ sleeps' = [sleeps EXCEPT ![c] = Append(@, backoff[c])]
    /\ Printf(c, <<AttemptLine(c), RetryLine(c, failure)>>)
    /\ result' = result

RetryOrFail(c, failure) ==
    /\ lastErr' = [lastErr EXCEPT ![c] = failure]
    /\ IF attempt[c] < maxRetries
       THEN /\ pc' = [pc EXCEPT ![c] = "sleep"]
            /\ until' = [until EXCEPT ![c] = now + backoff[c]]
            /\ sleeps' = [sleeps EXCEPT ![c] = Append(@, backoff[c])]
            /\ Printf(c, <<AttemptLine(c), RetryLine(c, failure)>>)
            /\ result' = result
       ELSE /\ pc' = [pc EXCEPT ![c] = "done"]
            /\ until' = until
            /\ sleeps' = sleeps
            /\ Printf(c, <<AttemptLine(c)>>)
            /\ result' = [result EXCEPT ![c] = failure]

\* A failure that is not retried (client.go:129, 262, 288, 295, 304): lastErr is
\* not set; lines are what the iteration printed after its first line.
FailAfterSleep(c, failure, lines) ==
    /\ pc' = [pc EXCEPT ![c] = "done"]
    /\ result' = [result EXCEPT ![c] = failure]
    /\ sleeps' = [sleeps EXCEPT ![c] = Append(@, backoff[c])]
    /\ Printf(c, <<AttemptLine(c)>> \o lines)
    /\ UNCHANGED <<until, lastErr>>

FailSwallowed(c, failure, lines) ==
    /\ pc' = [pc EXCEPT ![c] = "done"]
    /\ result' = [result EXCEPT ![c] = Returned(0, "none", 0, NilErr)]
    /\ Printf(c, <<AttemptLine(c)>> \o lines)
    /\ UNCHANGED <<until, lastErr, sleeps>>

Fail(c, failure, lines) ==
    /\ pc' = [pc EXCEPT ![c] = "done"]
    /\ result' = [result EXCEPT ![c] = failure]
    /\ Printf(c, <<AttemptLine(c)>> \o lines)
    /\ UNCHANGED <<until, lastErr, sleeps>>

\* "return resp, nil" (client.go:148).
DoSuccessStaleErr(c, status) ==
    [lastErr[c] EXCEPT !.resp = status]

DoSuccess(c, status) ==
    Returned(status, "none", 0, NilErr)

(***************************************************************************)
(* What one iteration does with the body of the response it got.  Both     *)
(* loops close the body of a response with a transient status before they  *)
(* sleep (client.go:134, 267).  Do hands any other response to its caller  *)
(* with the body open (client.go:148); makeFormRequest defers the close    *)
(* (client.go:281), which runs when it returns.  An attempt that ends in   *)
(* an error has no response.                                               *)
(***************************************************************************)
DoBodies(o) ==
    IF o.err # NilErr THEN <<>>
    ELSE IF isTransientHTTPError(o.status) THEN <<"open", "close">>
    ELSE <<"open">>

FormBodiesLeftOpenOnRetry(o) ==
    IF o.err # NilErr THEN <<>>
    ELSE IF isTransientHTTPError(o.status) THEN <<"open">>
    ELSE <<"open", "close">>

FormBodies(o) ==
    IF o.err # NilErr THEN <<>>
    ELSE IF isTransientHTTPError(o.status) THEN <<"open", "close">>
    ELSE <<"open", "close">>

(***************************************************************************)
(* One iteration of the loop of Client.Do (client.go:109-149).  The        *)
(* request carries its own context, not the ctx passed to Do, and no body  *)
(* (client_test.go:104).                                                   *)
(***************************************************************************)
DoAttempt(c) ==
    /\ pc[c] = "attempt"
    /\ kind[c] = "Do"
    /\ \E o \in Outcomes :
        /\ log' = [log EXCEPT ![c] = Append(@, [at |-> now, status |-> o.status,
                                                 err |-> o.err, body |-> o.body])]
        /\ bodies' = [bodies EXCEPT ![c] = @ \o DoBodies(o)]
        /\ IF o.err # NilErr
           THEN IF isTransientNetworkError(o.err)
                THEN RetryOrFail(c, Returned(0, "net", 0, o.err))
                ELSE Fail(c, Returned(0, "net", 0, o.err), <<>>)
           ELSE IF isTransientHTTPError(o.status)
                THEN RetryOrFail(c, Returned(0, "http", o.status, NilErr))
                ELSE /\ pc' = [pc EXCEPT ![c] = "done"]
                     /\ result' = [result EXCEPT ![c] = DoSuccess(c, o.status)]
                     /\ Printf(c, <<AttemptLine(c)>>)
                     /\ UNCHANGED <<until, lastErr, sleeps>>
    /\ UNCHANGED <<cfgVars, inVars, provVars, fnVars, now, limNext, kind, ctx, attempt, backoff,
                   acquired, header, form, reqBody>>

(***************************************************************************)
(* One iteration of the loop of makeFormRequest (client.go:242-309).  The  *)
(* request was built with ctx (client.go:230): once ctx is done,           *)
(* httpClient.Do sends nothing and returns the context's error; with the   *)
(* body consumed by an earlier round trip it either sends nothing and      *)
(* returns BodyGoneErr or sends the body got again.  A round trip that     *)
(* ends in a response has read the body; a transport error of              *)
(* transport.errors comes before the request is written.  Every caller passes a result target (host.go,                 *)
(* sensor_types.go), so a 2xx body is read and decoded (client.go:291-306).*)
(***************************************************************************)
FormAnswers(c) ==
    IF ctx[c] # "live" THEN {[status |-> 0, err |-> CtxErr(c), body |-> "none"]}
    ELSE IF reqBody[c] = "consumed"
    THEN {[status |-> 0, err |-> BodyGoneErr, body |-> "none"]} \cup FormOutcomes
    ELSE FormOutcomes

FormAttempt(c) ==
    /\ pc[c] = "attempt"
    /\ kind[c] = "Form"
    /\ \E o \in FormAnswers(c) :
        /\ log' = [log EXCEPT ![c] =
                       IF ctx[c] = "live" /\ o.err # BodyGoneErr
                       THEN Append(@, [at |-> now, status |-> o.status,
                                       err |-> o.err, body |-> o.body])
                       ELSE @]
        /\ reqBody' = [reqBody EXCEPT ![c] = IF o.err = NilErr THEN "consumed" ELSE @]
        /\ bodies' = [bodies EXCEPT ![c] = @ \o FormBodies(o)]
        /\ IF o.err # NilErr
           THEN IF isTransientNetworkError(o.err)
                THEN RetryOrFail(c, Returned(0, "net", 0, o.err))
                ELSE Fail(c, Returned(0, "net", 0, o.err), <<>>)
           ELSE IF isTransientHTTPError(o.status)
                THEN RetryOrFail(c, Returned(0, "http", o.status, NilErr))
                ELSE IF o.status < 200 \/ o.status >= 300
                THEN Fail(c, Returned(0, "status", o.status, <<BodyRead(o.body)>>),
                          <<<<"API request failed with status %d: %s",
                              ToString(o.status), BodyRead(o.body)>>>>)
                ELSE IF o.body = "unreadable"
                THEN Fail(c, Returned(0, "read", o.status, NilErr), <<>>)
                ELSE IF o.body = "notjson"
                THEN Fail(c, Returned(0, "decode", o.status, NilErr),
                          <<<<"Wormly API response: %s", o.body>>>>)
                ELSE /\ pc' = [pc EXCEPT ![c] = "done"]
                     /\ result' = [result EXCEPT ![c] = Returned(0, "none", 0, NilErr)]
                     /\ Printf(c, <<AttemptLine(c), <<"Wormly API response: %s", o.body>>>>)
                     /\ UNCHANGED <<until, lastErr, sleeps>>
    /\ UNCHANGED <<cfgVars, inVars, provVars, fnVars, now, limNext, kind, ctx, attempt, backoff,
                   acquired, header, form>>

(***************************************************************************)
(* time.Sleep(backoff) returns (client.go:124-126, 140-142; 257-259,       *)
(* 273-275): the backoff is updated and the loop continues with the next   *)
(* attempt, without going back to the limiter.                             *)
(***************************************************************************)
WakeReacquiring(c) ==
    /\ pc[c] = "sleep"
    /\ now >= until[c]
    /\ backoff' = [backoff EXCEPT ![c] = calculateNextBackoff(@)]
    /\ attempt' = [attempt EXCEPT ![c] = @ + 1]
    /\ acquired' = [acquired EXCEPT ![c] = @ + 1]
    /\ limNext' = Max(now, limNext) + tokenInterval
    /\ pc' = [pc EXCEPT ![c] = "attempt"]
    /\ UNCHANGED <<cfgVars, inVars, provVars, fnVars, bodies, now, kind, ctx, until, lastErr, log, result,
                   header, form, reqBody, sleeps, logged>>

WakeKeepingBackoff(c) ==
    /\ pc[c] = "sleep"
    /\ now >= until[c]
    /\ attempt' = [attempt EXCEPT ![c] = @ + 1]
    /\ pc' = [pc EXCEPT ![c] = "attempt"]
    /\ UNCHANGED <<cfgVars, inVars, provVars, fnVars, bodies, now, limNext, kind, ctx, until, acquired,
                   lastErr, log, result, backoff, header, form, reqBody, sleeps, logged>>

WakeSharedBackoff(c) ==
    /\ pc[c] = "sleep"
    /\ now >= until[c]
    /\ backoff' = [d \in Calls |-> calculateNextBackoff(backoff[c])]
    /\ attempt' = [attempt EXCEPT ![c] = @ + 1]
    /\ pc' = [pc EXCEPT ![c] = "attempt"]
    /\ UNCHANGED <<cfgVars, inVars, provVars, fnVars, bodies, now, limNext, kind, ctx, until, acquired,
                   lastErr, log, result, header, form, reqBody, sleeps, logged>>

WakeOnContextOnly(c) ==
    /\ pc[c] = "sleep"
    /\ ctx[c] # "live"
    /\ backoff' = [backoff EXCEPT ![c] = calculateNextBackoff(@)]
    /\ attempt' = [attempt EXCEPT ![c] = @ + 1]
    /\ IF attempt[c] + 1 <= maxRetries
       THEN /\ pc' = [pc EXCEPT ![c] = "attempt"]
            /\ result' = result
       ELSE /\ pc' = [pc EXCEPT ![c] = "done"]
            /\ result' = [result EXCEPT ![c] =
                   Returned(0, "exhausted", lastErr[c].status, lastErr[c].cause)]
    /\ UNCHANGED <<cfgVars, inVars, provVars, fnVars, bodies, now, limNext, kind, ctx, until, acquired,
                   lastErr, log, header, form, reqBody, sleeps, logged>>

Wake(c) ==
    /\ pc[c] = "sleep"
    /\ now >= until[c]
    /\ backoff' = [backoff EXCEPT ![c] = calculateNextBackoff(@)]
    /\ attempt' = [attempt EXCEPT ![c] = @ + 1]
    /\ IF attempt[c] + 1 <= maxRetries
       THEN /\ pc' = [pc EXCEPT ![c] = "attempt"]
            /\ result' = result
       ELSE /\ pc' = [pc EXCEPT ![c] = "done"]
            /\ result' = [result EXCEPT ![c] =
                   Returned(0, "exhausted", lastErr[c].status, lastErr[c].cause)]
    /\ UNCHANGED <<cfgVars, inVars, provVars, fnVars, bodies, now, limNext, kind, ctx, until, acquired,
                   lastErr, log, header, form, reqBody, sleeps, logged>>

(***************************************************************************)
(* Time passes while no call can take a step.                              *)
(***************************************************************************)
Blocked(c) ==
    \/ pc[c] \in {"idle", "done"}
    \/ pc[c] = "wait" /\ now < until[c] /\ ctx[c] = "live"
    \/ pc[c] = "sleep" /\ now < until[c]

Tick ==
    /\ now < MaxTime
    /\ \A c \in Calls : Blocked(c)
    /\ now' = now + 1
    /\ UNCHANGED <<cfgVars, inVars, provVars, fnVars, bodies, limNext, kind, pc, ctx, attempt, backoff, until,
                   acquired, lastErr, log, result, header, form, reqBody, sleeps, logged>>

Next ==
    \/ \E c \in Calls : Start(c, "Do")
    \/ \E c \in Calls : Start(c, "Form")
    \/ \E c \in Calls : Granted(c)
    \/ \E c \in Calls : WaitCancelled(c)
    \/ \E c \in Calls : CtxDone(c)
    \/ \E c \in Calls : DoAttempt(c)
    \/ \E c \in Calls : FormAttempt(c)
    \/ \E c \in Calls : Wake(c)
    \/ Tick

Spec == Init /\ [][Next]_vars

\* An error is its text, kept as the pieces fmt.Errorf puts together.
\* strconv.Atoi on the strings the model uses, strconv.Itoa.
Numerals == {<<"0", 0>>, <<"5", 5>>, <<"6", 6>>, <<"7", 7>>, <<"8", 8>>, <<"9", 9>>,
             <<"42", 42>>, <<"123", 123>>, <<"404", 404>>}
AtoiLenient(s) == [n |-> 0, err |-> NilErr]

Atoi(s) ==
    IF \E p \in Numerals : p[1] = s
    THEN [n |-> (CHOOSE p \in Numerals : p[1] = s)[2], err |-> NilErr]
    ELSE [n |-> 0, err |-> <<"strconv.Atoi: parsing ", s, ": invalid syntax">>]
Itoa(n) == ToString(n)

\* fmt.Errorf: the pieces of the text, then the text of the wrapped error.
Errorf(pieces, cause) == pieces \o cause

\* The value of "periodid" in the JSON object of a period, as json.Unmarshal
\* stores it in the interface{} field PeriodID (sensor_http_test.go:358-361):
\* a JSON string as a string, a JSON number as a float64, null and an absent
\* key as nil, true and false as a bool.  A float64 is kept in tenths.
Float64s == {<<"123", 1230>>, <<"123.0", 1230>>, <<"123.5", 1235>>, <<"42", 420>>,
             <<"0", 0>>, <<"0.9", 9>>, <<"-7", -70>>, <<"-7.5", -75>>}
PeriodIDStrings == {"123", "42", "0", "", "invalid", "123.0", "12a", "null"}
PeriodIDs ==
    {[type |-> "string", str |-> s] : s \in PeriodIDStrings}
    \cup {[type |-> "float64", tenths |-> f[2], json |-> f[1]] : f \in Float64s}
    \cup {[type |-> "nil", json |-> j] : j \in {"null", "absent"}}
    \cup {[type |-> "bool", bool |-> b] : b \in BOOLEAN}

\* int(v) of a float64 v kept in tenths: the fraction is dropped.
ToInt(v) == IF v >= 0 THEN v \div 10 ELSE -((-v) \div 10)

\* ScheduledDowntimePeriod.UnmarshalJSON (sensor_http_test.go:355-390) on the
\* period s, PeriodID being what json.Unmarshal stored for "periodid": the
\* ID of s afterwards and the error returned.  The type switch has no case
\* for a bool; its case for an int is one json.Unmarshal never produces.
UnmarshalJSON(s, PeriodID) ==
    CASE PeriodID.type = "string" ->
             IF PeriodID.str # ""
             THEN IF Atoi(PeriodID.str).err # NilErr
                  THEN [ID |-> s.ID,
                        err |-> Errorf(<<"failed to convert periodid string '", PeriodID.str,
                                         "' to int: ">>, Atoi(PeriodID.str).err)]
                  ELSE [ID |-> Atoi(PeriodID.str).n, err |-> NilErr]
             ELSE [ID |-> s.ID, err |-> NilErr]
      [] PeriodID.type = "float64" -> [ID |-> ToInt(PeriodID.tenths), err |-> NilErr]
      [] PeriodID.type = "nil" -> [ID |-> 0, err |-> NilErr]
      [] OTHER -> [ID |-> s.ID, err |-> <<"unexpected type for periodid: ", PeriodID.type>>]

\* The period json.Unmarshal decodes into: a new value, all its fields zero.
NewPeriod == [ID |-> 0]

(***************************************************************************)
(* One call under every kind of backoff configuration New accepts          *)
(* (client.go:62-86 stores what it is given): an initial backoff that is   *)
(* negative, zero or positive, below and above the maximum, and a          *)
(* multiplier below, at and above 1.  time.Sleep of a duration that is not *)
(* positive returns at once.                                               *)
(***************************************************************************)
\* Time passes towards the next timer; no call can take a step before.
TimerPending ==
    /\ \A c \in Calls : Blocked(c)
    /\ \E c \in Calls : pc[c] \in {"wait", "sleep"} /\ now < until[c]
    /\ now' = now + 1
    /\ UNCHANGED <<cfgVars, inVars, provVars, fnVars, bodies, limNext, kind, pc, ctx, attempt,
                   backoff, until, acquired, lastErr, log, result, header, form, reqBody,
                   sleeps, logged>>

BackoffConfigs == ((-1)..2) \X {<<1, 2>>, <<1, 1>>, <<3, 2>>, <<2, 1>>} \X (1..3)

InitBackoff ==
    /\ maxRetries = MaxRetriesB + 1
    /\ \E k \in BackoffConfigs :
        /\ initialBackoff = k[1]
        /\ backoffMultiplier = k[2]
        /\ maxBackoff = k[3]
    /\ tokenInterval = 1
    /\ apiKey = "key-1"
    /\ debugEnabled = FALSE
    /\ transport = Transport
    /\ PlainCalls
    /\ NoCalls
    /\ NoProvider
    /\ NoFn

NextBackoff ==
    \/ Start(1, "Do")
    \/ Start(1, "Form")
    \/ DoAttempt(1)
    \/ FormAttempt(1)
    \/ Wake(1)
    \/ TimerPending

SpecBackoff == InitBackoff /\ [][NextBackoff]_vars

(***************************************************************************)
(* The calls under the assumption that what a call waits for comes about:  *)
(* time passes as long as a timer of limiter.Wait or of time.Sleep is still *)
(* to fire, a timer that is due fires, a wait whose context is done         *)
(* returns, and a round trip ends, with a response or with an error.  That  *)
(* a caller starts a call or gives up its context is not assumed.          *)
(***************************************************************************)
NextLive ==
    \/ \E c \in Calls : Start(c, "Do")
    \/ \E c \in Calls : Start(c, "Form")
    \/ \E c \in Calls : Granted(c)
    \/ \E c \in Calls : WaitCancelled(c)
    \/ \E c \in Calls : CtxDone(c)
    \/ \E c \in Calls : DoAttempt(c)
    \/ \E c \in Calls : FormAttempt(c)
    \/ \E c \in Calls : Wake(c)
    \/ TimerPending

Completes ==
    /\ WF_vars(TimerPending)
    /\ \A c \in Calls :
        /\ WF_vars(Granted(c))
        /\ WF_vars(WaitCancelled(c))
        /\ WF_vars(DoAttempt(c))
        /\ WF_vars(FormAttempt(c))
        /\ WF_vars(Wake(c))

SpecLive == Init /\ [][NextLive]_vars /\ Completes

(***************************************************************************)
(* The pure functions, applied to arguments drawn from bounded sets under  *)
(* every backoff configuration of FnConfigs; no call runs.                 *)
(***************************************************************************)
Multipliers == {<<1, 1>>, <<3, 2>>, <<2, 1>>, <<Triple, 1>>}

\* <<initialBackoff, backoffMultiplier, maxBackoff>>; the last is the
\* configuration of TestClient_Do_BackoffCap (client_test.go:400-402).
FnConfigs == ({1, 2} \X Multipliers \X (1..MaxDuration))
             \cup {<<Ms100, <<Triple, 1>>, Ms200>>}

Durations == (0..MaxDuration) \cup {Ms100, Ms200}

\* Error values: those of TestIsTransientNetworkError (client_test.go:427-473),
\* the operation errors of client.go:180-186 bare and as httpClient.Do returns
\* them, and the errors of a context that is done.
ErrorValues ==
    {NilErr, <<"generic">>, <<"timeoutError">>, <<"temporaryError">>,
     <<"net.OpError", "timeoutError">>, <<"net.OpError", "temporaryError">>,
     <<"net.OpError", "DNSError">>, <<"url.Error", "generic">>,
     <<"url.Error", "net.OpError", "timeoutError">>,
     <<"url.Error", "net.OpError", "temporaryError">>,
     <<"url.Error", "context.Canceled">>, <<"url.Error", "context.DeadlineExceeded">>}
    \cup {<<"net.OpError", e>> : e \in Errnos}
    \cup {<<"net.OpError", "os.SyscallError", e>> : e \in Errnos}
    \cup {<<"url.Error", "net.OpError", e>> : e \in Errnos}
    \cup {<<"url.Error", "net.OpError", "os.SyscallError", e>> : e \in Errnos}

InitFn ==
    /\ maxRetries = 0
    /\ tokenInterval = 1
    /\ \E k \in FnConfigs :
        /\ initialBackoff = k[1]
        /\ backoffMultiplier = k[2]
        /\ maxBackoff = k[3]
    /\ \/ fnIn \in {"isTransientHTTPError"} \X StatusCodes /\ initialBackoff = Ms100
       \/ fnIn \in {"calculateNextBackoff"} \X Durations
       \/ fnIn \in {"isTransientNetworkError"} \X ErrorValues /\ initialBackoff = Ms100
       \/ fnIn \in {"UnmarshalJSON"} \X PeriodIDs /\ initialBackoff = Ms100
    /\ fnOut = <<>>
    /\ backoffSeq = <<>>
    /\ apiKey = "key-1"
    /\ debugEnabled = FALSE
    /\ transport = Transport
    /\ PlainCalls
    /\ NoCalls
    /\ NoProvider

ApplyIsTransientHTTPError ==
    /\ fnIn[1] = "isTransientHTTPError"
    /\ fnOut = <<>>
    /\ fnOut' = <<isTransientHTTPError(fnIn[2])>>
    /\ UNCHANGED <<cfgVars, inVars, provVars, callVars, fnIn, backoffSeq>>

ApplyCalculateNextBackoff ==
    /\ fnIn[1] = "calculateNextBackoff"
    /\ fnOut = <<>>
    /\ fnOut' = <<calculateNextBackoff(fnIn[2])>>
    /\ UNCHANGED <<cfgVars, inVars, provVars, callVars, fnIn, backoffSeq>>

\* The loop of TestClient_Do_BackoffCap (client_test.go:411-424): the backoff
\* starts at initialBackoff and each next one is computed from the last.
IterateBackoff ==
    /\ Len(backoffSeq) < MaxSeqLen
    /\ backoffSeq' = IF backoffSeq = <<>> THEN <<initialBackoff>>
                     ELSE Append(backoffSeq,
                                 calculateNextBackoff(backoffSeq[Len(backoffSeq)]))
    /\ UNCHANGED <<cfgVars, inVars, provVars, callVars, fnIn, fnOut>>

ApplyIsTransientNetworkError ==
    /\ fnIn[1] = "isTransientNetworkError"
    /\ fnOut = <<>>
    /\ fnOut' = <<isTransientNetworkError(fnIn[2])>>
    /\ UNCHANGED <<cfgVars, inVars, provVars, callVars, fnIn, backoffSeq>>

\* json.Unmarshal of a period object into a new ScheduledDowntimePeriod.
ApplyUnmarshalJSON ==
    /\ fnIn[1] = "UnmarshalJSON"
    /\ fnOut = <<>>
    /\ fnOut' = <<UnmarshalJSON(NewPeriod, fnIn[2])>>
    /\ UNCHANGED <<cfgVars, inVars, provVars, callVars, fnIn, backoffSeq>>

NextFn ==
    \/ ApplyUnmarshalJSON
    \/ ApplyIsTransientHTTPError
    \/ ApplyIsTransientNetworkError
    \/ ApplyCalculateNextBackoff
    \/ IterateBackoff

SpecFn == InitFn /\ [][NextFn]_vars

(***************************************************************************)
(* One call at a time, Do or makeFormRequest, under several backoff        *)
(* configurations and against a server and a transport that give every     *)
(* kind of answer: 2xx and other statuses, transient or not, and errors    *)
(* with and without Timeout() (client_test.go:500-512).                    *)
(***************************************************************************)
\* <<initialBackoff, backoffMultiplier, maxBackoff>>
OneConfigs == {<<1, <<3, 2>>, 2>>, <<1, <<2, 1>>, 3>>, <<2, <<3, 2>>, 3>>,
               <<1, <<Triple, 1>>, 2>>}

WideTransport ==
    [statuses |-> {StatusOK, StatusBadRequest, StatusNotFound, StatusTooManyRequests,
                   StatusInternalServerError},
     errors |-> TransportErrors \cup {<<"url.Error", "net.OpError", "timeoutError">>,
                                      <<"url.Error", "net.OpError", "temporaryError">>},
     bodied |-> {StatusOK, StatusNotFound}]

InitOne ==
    /\ maxRetries \in (0..MaxRetriesB) \cup {-1}
    /\ \E k \in OneConfigs :
        /\ initialBackoff = k[1]
        /\ backoffMultiplier = k[2]
        /\ maxBackoff = k[3]
    /\ tokenInterval = 1
    /\ apiKey = "key-1"
    /\ debugEnabled = FALSE
    /\ transport = WideTransport
    /\ PlainCalls
    /\ NoCalls
    /\ NoProvider
    /\ NoFn

NextOne ==
    \/ Start(1, "Do")
    \/ Start(1, "Form")
    \/ CtxDone(1)
    \/ DoAttempt(1)
    \/ FormAttempt(1)
    \/ Wake(1)
    \/ Tick

SpecOne == InitOne /\ [][NextOne]_vars

(***************************************************************************)
(* One call at a time with every shape of argument: a request for Do whose *)
(* three headers are each absent, present and empty, or set by the caller; *)
(* a parameter map for makeFormRequest with any of the keys of ParamOrder; *)
(* two API keys; debug mode on and off.                                    *)
(***************************************************************************)
HeaderValues == {<<>>, <<"">>, <<"caller">>}

ParamMaps == {[k \in ks |-> IF k = "hostid" THEN "42" ELSE "caller"] :
                  ks \in SUBSET {"cmd", "hostid", "key", "response"}}

InitReq ==
    /\ maxRetries = 1
    /\ initialBackoff = 1
    /\ backoffMultiplier = <<2, 1>>
    /\ maxBackoff = 2
    /\ tokenInterval = 1
    /\ apiKey \in {"key-1", "key-2"}
    /\ debugEnabled \in BOOLEAN
    /\ transport = Transport
    /\ command = [c \in Calls |-> "getHostStatus"]
    /\ \/ /\ \E h \in [HeaderNames -> HeaderValues] :
                callerHeader = [c \in Calls |-> IF c = 1 THEN h ELSE NoHeader]
          /\ params = [c \in Calls |-> [k \in {"hostid"} |-> "42"]]
       \/ /\ callerHeader = [c \in Calls |-> NoHeader]
          /\ \E m \in ParamMaps :
                params = [c \in Calls |-> IF c = 1 THEN m ELSE [k \in {"hostid"} |-> "42"]]
    /\ NoCalls
    /\ NoProvider
    /\ NoFn

SpecReq == InitReq /\ [][NextOne]_vars

(***************************************************************************)
(* The provider (part_003).  Durations of this layer are counted in        *)
(* milliseconds, a float64 is the fraction <<num, den>> as before.         *)
(***************************************************************************)
Second == 1000

\* types.String.ValueString: "" for a null value.
ValueString(v) == IF IsSet(v) THEN v[1] ELSE ""

\* time.ParseDuration on the strings of DurationStrings: a signed number with
\* a unit, anything else is an error.
DurationStrings == {"0s", "500ms", "1s", "2s", "10s", "30s", "-1s", "1", "abc", ""}
ParseError == <<"time: invalid duration">>
ParseDuration(s) ==
    CASE s = "0s" -> [d |-> 0, err |-> NilErr]
      [] s = "500ms" -> [d |-> Second \div 2, err |-> NilErr]
      [] s = "1s" -> [d |-> Second, err |-> NilErr]
      [] s = "2s" -> [d |-> 2 * Second, err |-> NilErr]
      [] s = "10s" -> [d |-> 10 * Second, err |-> NilErr]
      [] s = "30s" -> [d |-> 30 * Second, err |-> NilErr]
      [] s = "-1s" -> [d |-> 0 - Second, err |-> NilErr]
      [] OTHER -> [d |-> 0, err |-> ParseError]

\* The defaults Configure starts from (part_003:112-122).
Defaults ==
    [RequestsPerSecond |-> 3, MaxRetries |-> 3, InitialBackoff |-> Second,
     BackoffMultiplier |-> <<2, 1>>, MaxBackoff |-> 30 * Second, Debug |-> FALSE]

\* client.New (client.go:62-86) stores its arguments as they are; the limiter
\* rate.NewLimiter(rate.Limit(r), 1) refills its one token every 1/r.
New(config) ==
    /\ apiKey' = config.APIKey
    /\ tokenInterval' = Second \div config.RequestsPerSecond
    /\ maxRetries' = config.MaxRetries
    /\ initialBackoff' = config.InitialBackoff
    /\ backoffMultiplier' = config.BackoffMultiplier
    /\ maxBackoff' = config.MaxBackoff
    /\ debugEnabled' = config.Debug

\* Configure returns with an error diagnostic and without a client.
ConfigureFails(summary) ==
    /\ diags' = Append(diags, summary)
    /\ UNCHANGED <<cfgVars, resourceData>>

(***************************************************************************)
(* wormlyProvider.Configure (part_003:104-209): the defaults, overridden   *)
(* by every attribute that is set; the only configurations refused are     *)
(* those with a duration that does not parse or with an empty API key.     *)
(***************************************************************************)
Configure ==
    /\ resourceData = "nil"
    /\ diags = <<>>
    /\ LET data == providerConfig
           initial == ParseDuration(ValueString(data.initial_backoff))
           max == ParseDuration(ValueString(data.max_backoff))
           config ==
               [APIKey |-> ValueString(data.api_key),
                RequestsPerSecond |-> IF IsSet(data.requests_per_second)
                                      THEN data.requests_per_second[1]
                                      ELSE Defaults.RequestsPerSecond,
                MaxRetries |-> IF IsSet(data.max_retries) THEN data.max_retries[1]
                               ELSE Defaults.MaxRetries,
                InitialBackoff |-> IF IsSet(data.initial_backoff) THEN initial.d
                                   ELSE Defaults.InitialBackoff,
                BackoffMultiplier |-> IF IsSet(data.backoff_multiplier)
                                      THEN data.backoff_multiplier[1]
                                      ELSE Defaults.BackoffMultiplier,
                MaxBackoff |-> IF IsSet(data.max_backoff) THEN max.d
                               ELSE Defaults.MaxBackoff,
                Debug |-> IF IsSet(data.debug) THEN data.debug[1] ELSE Defaults.Debug]
       IN  IF IsSet(data.initial_backoff) /\ initial.err # NilErr
           THEN ConfigureFails("Invalid Initial Backoff Duration")
           ELSE IF IsSet(data.max_backoff) /\ max.err # NilErr
           THEN ConfigureFails("Invalid Max Backoff Duration")
           ELSE IF config.APIKey = ""
           THEN ConfigureFails("Missing API Key Configuration")
           ELSE /\ New(config)
                /\ resourceData' = "client"
                /\ UNCHANGED diags
    /\ UNCHANGED <<providerConfig, apiVars, resVars, inVars, fnVars, callVars>>

\* The provider blocks Configure is given: every attribute unset or set, to
\* values in and out of the ranges the client is written for.
ProviderConfigs ==
    [api_key : {Null, Known(""), Known("key-1")},
     requests_per_second : {Null, Known(5), Known(10)},
     max_retries : {Null, Known(-1), Known(0), Known(5)},
     initial_backoff : {Null} \cup {Known(s) : s \in {"0s", "500ms", "2s", "-1s", "abc"}},
     backoff_multiplier : {Null, Known(<<3, 2>>), Known(<<1, 2>>)},
     max_backoff : {Null} \cup {Known(s) : s \in {"1s", "10s", "1", ""}},
     debug : {Null, Known(TRUE)}]

\* Before Configure there is no client: its fields are written as zero.
InitCfg ==
    /\ providerConfig \in ProviderConfigs
    /\ resourceData = "nil"
    /\ diags = <<>>
    /\ NoApi
    /\ NoResource
    /\ maxRetries = 0
    /\ initialBackoff = 0
    /\ backoffMultiplier = <<0, 1>>
    /\ maxBackoff = 0
    /\ tokenInterval = 0
    /\ apiKey = ""
    /\ debugEnabled = FALSE
    /\ transport = Transport
    /\ PlainCalls
    /\ NoCalls
    /\ NoFn

NextCfg == Configure

SpecCfg == InitCfg /\ [][NextCfg]_vars


(***************************************************************************)
(* The operations of Client on hosts, HTTP sensors, scheduled downtime     *)
(* periods and the global alert mute (host.go, sensor_http_test.go,        *)
(* sensor_types.go).  Each builds its parameters, calls makeFormRequest    *)
(* with a response struct as target, and looks at the decoded response.    *)
(* An error is its text, kept as the pieces fmt.Errorf puts together: the   *)
(* pieces of its format, its arguments and, for %w, the text of the error  *)
(* it wraps; NilErr is no error.  What an operation returns is             *)
(* [entity, err], where entity is <<>> for nil and for an operation that   *)
(* returns an error only.                                                  *)
(***************************************************************************)
\* http.Response.Status of the statuses makeFormRequest retries.
StatusLine(status) ==
    CASE status = 429 -> "429 Too Many Requests"
      [] status = 500 -> "500 Internal Server Error"
      [] status = 502 -> "502 Bad Gateway"
      [] status = 503 -> "503 Service Unavailable"
      [] OTHER -> "504 Gateway Timeout"

\* The error makeFormRequest returned (client.go:209, 262, 276, 288, 295, 304,
\* 311); an error of the limiter, of the transport or of a decoder is
\* written as its kind.
CallError(res) ==
    CASE res.kind = "limiter" -> <<"rate limiter wait failed: ", "context done">>
      [] res.kind = "net" -> res.cause
      [] res.kind = "http" -> <<"HTTP ", ToString(res.status), ": ", StatusLine(res.status)>>
      [] res.kind = "status" ->
             <<"API request failed with status ", ToString(res.status), ": ">> \o res.cause
      [] res.kind = "read" -> <<"failed to read response body: ", "read error">>
      [] res.kind = "decode" -> <<"failed to decode response: ", "syntax error">>
      [] res.kind = "exhausted" ->
             <<"request failed after ", ToString(maxRetries), " retries: ", "%!w(<nil>)">>

Ok(entity) == [entity |-> <<entity>>, err |-> NilErr]
Done == [entity |-> <<>>, err |-> NilErr]
Failed(err) == [entity |-> <<>>, err |-> err]

\* For every operation: its API command, the text it wraps the error of
\* makeFormRequest in, and whether its error for a nonzero errorcode carries
\* the message of the response.
Operations ==
    [CreateHost |-> [command |-> "createHost", message |-> TRUE,
                     wrap |-> "failed to create host: "],
     GetHost |-> [command |-> "getHostStatus", message |-> FALSE,
                  wrap |-> "failed to get host: "],
     DeleteHost |-> [command |-> "deleteHost", message |-> TRUE,
                     wrap |-> "failed to delete host: "],
     DisableHostUptimeMonitoring |->
         [command |-> "disableHostUptimeMonitoring", message |-> TRUE,
          wrap |-> "failed to disable host uptime monitoring: "],
     EnableHostUptimeMonitoring |->
         [command |-> "enableHostUptimeMonitoring", message |-> TRUE,
          wrap |-> "failed to enable host uptime monitoring: "],
     CreateSensorHTTP |-> [command |-> "addHostSensor_HTTP", message |-> TRUE,
                           wrap |-> "failed to create HTTP sensor: "],
     GetSensorHTTP |-> [command |-> "getHostSensors", message |-> FALSE,
                        wrap |-> "failed to get HTTP sensor: "],
     DeleteSensorHTTP |-> [command |-> "deleteSensor", message |-> TRUE,
                           wrap |-> "failed to delete HTTP sensor: "],
     ListSensorHTTP |-> [command |-> "getHostSensors", message |-> FALSE,
                         wrap |-> "failed to list HTTP sensors: "],
     EnableSensorHTTP |-> [command |-> "enableSensor", message |-> TRUE,
                           wrap |-> "failed to enable HTTP sensor: "],
     DisableSensorHTTP |-> [command |-> "disableSensor", message |-> TRUE,
                            wrap |-> "failed to disable HTTP sensor: "],
     CreateScheduledDowntimePeriod |->
         [command |-> "setScheduledDowntimePeriod", message |-> TRUE,
          wrap |-> "failed to create scheduled downtime period: "],
     GetScheduledDowntimePeriod |->
         [command |-> "getScheduledDowntimePeriods", message |-> FALSE,
          wrap |-> "failed to get scheduled downtime periods: "],
     UpdateScheduledDowntimePeriod |->
         [command |-> "setScheduledDowntimePeriod", message |-> TRUE,
          wrap |-> "failed to update scheduled downtime period: "],
     DeleteScheduledDowntimePeriod |->
         [command |-> "deleteScheduledDowntimePeriod", message |-> TRUE,
          wrap |-> "failed to delete scheduled downtime period: "],
     GetScheduledDowntimePeriods |->
         [command |-> "getScheduledDowntimePeriods", message |-> FALSE,
          wrap |-> "failed to get scheduled downtime periods: "],
     SetGlobalAlertMute |-> [command |-> "setGlobalAlertMute", message |-> FALSE,
                             wrap |-> "failed to set global alert mute: "]]

\* What every operation does first with what makeFormRequest returned and
\* with the errorcode of the response; rest is what it returns otherwise.
EnvelopedAnyErrorcode(op, res, env, rest) ==
    IF res.kind # "none"
    THEN Failed(Errorf(<<Operations[op].wrap>>, CallError(res)))
    ELSE rest

Enveloped(op, res, env, rest) ==
    IF res.kind # "none"
    THEN Failed(Errorf(<<Operations[op].wrap>>, CallError(res)))
    ELSE IF env.errorcode # 0
    THEN Failed(Errorf(<<"API returned error code ", ToString(env.errorcode)>>
                           \o (IF Operations[op].message THEN <<": ", env.message>>
                               ELSE <<>>),
                       NilErr))
    ELSE rest

\* The first of the indices is: the entry a loop over the response finds.
First(is) == CHOOSE i \in is : \A j \in is : i <= j

\* GetHost (host.go:91-124).
GetHost(args, res, env) ==
    LET found == {i \in 1..Len(env.entries) : env.entries[i].hostid = args.id}
        host == env.entries[First(found)]
    IN  Enveloped("GetHost", res, env,
            IF found = {}
            THEN Failed(Errorf(<<"host with ID ", Itoa(args.id), " not found">>, NilErr))
            ELSE Ok([ID |-> host.hostid, Name |-> host.name, TestInterval |-> 60,
                     Enabled |-> host.uptimemonitored \/ host.healthmonitored]))

\* convertBasicSensorToHTTP (host.go:628-692), the sensor's parameters left out.
convertBasicSensorToHTTP(sensor, hostID) ==
    IF Atoi(sensor.hsid).err # NilErr
    THEN Failed(Errorf(<<"invalid HSID value: ", sensor.hsid>>, NilErr))
    ELSE Ok([ID |-> Atoi(sensor.hsid).n, HostID |-> hostID, NiceName |-> sensor.nicename,
             Enabled |-> sensor.enabled \in {"1", "true"}])

\* GetSensorHTTP (host.go:350-377): the sensors whose HSID is no number are
\* skipped.
GetSensorHTTP(args, res, env) ==
    LET found == {i \in 1..Len(env.entries) :
                        /\ Atoi(env.entries[i].hsid).err = NilErr
                        /\ Atoi(env.entries[i].hsid).n = args.id}
    IN  Enveloped("GetSensorHTTP", res, env,
            IF found = {}
            THEN Failed(Errorf(<<"HTTP sensor with ID ", Itoa(args.id),
                                 " not found for host ", Itoa(args.hostid)>>, NilErr))
            ELSE convertBasicSensorToHTTP(env.entries[First(found)], args.hostid))

\* ListSensorHTTP (host.go:399-427): the sensors of type SensorTypeHTTP, or
\* the error of the first of them that does not convert.
ListSensorHTTP(args, res, env) ==
    LET http == {i \in 1..Len(env.entries) : env.entries[i].sensorid = "2"}
        bad == {i \in http :
                    convertBasicSensorToHTTP(env.entries[i], args.hostid).err # NilErr}
    IN  Enveloped("ListSensorHTTP", res, env,
            IF bad # {}
            THEN Failed(Errorf(<<"failed to convert sensor (HSID: ",
                                 env.entries[First(bad)].hsid, "): ">>,
                               convertBasicSensorToHTTP(env.entries[First(bad)],
                                                        args.hostid).err))
            ELSE Ok({convertBasicSensorToHTTP(env.entries[i], args.hostid).entity[1] :
                         i \in http}))

\* GetScheduledDowntimePeriods (sensor_http_test.go:527-547).
GetScheduledDowntimePeriods(args, res, env) ==
    Enveloped("GetScheduledDowntimePeriods", res, env,
        Ok([i \in 1..Len(env.entries) |-> [ID |-> env.entries[i].periodid,
                                           HostID |-> args.hostid]]))

\* GetScheduledDowntimePeriod (sensor_http_test.go:454-468).
GetScheduledDowntimePeriod(args, res, env) ==
    LET got == GetScheduledDowntimePeriods(args, res, env)
        periods == got.entity[1]
        found == {i \in 1..Len(periods) : periods[i].ID = args.id}
    IN  IF got.err # NilErr
        THEN Failed(Errorf(<<"failed to get scheduled downtime periods: ">>, got.err))
        ELSE IF found = {}
        THEN Failed(Errorf(<<"scheduled downtime period with ID ", Itoa(args.id),
                             " not found">>, NilErr))
        ELSE Ok(periods[First(found)])

\* What the operation op returns, called with args, when makeFormRequest
\* returned res and the response decoded to env.
Return(op, args, res, env) ==
    CASE op = "GetHost" -> GetHost(args, res, env)
      [] op = "GetSensorHTTP" -> GetSensorHTTP(args, res, env)
      [] op = "ListSensorHTTP" -> ListSensorHTTP(args, res, env)
      [] op = "GetScheduledDowntimePeriods" -> GetScheduledDowntimePeriods(args, res, env)
      [] op = "GetScheduledDowntimePeriod" -> GetScheduledDowntimePeriod(args, res, env)
      [] op = "CreateHost" ->
             Enveloped(op, res, env,
                 Ok([ID |-> env.id, Name |-> args.name, TestInterval |-> args.testInterval,
                     Enabled |-> args.enabled]))
      [] op = "CreateSensorHTTP" ->
             Enveloped(op, res, env,
                 Ok([ID |-> env.id, HostID |-> args.hostid, NiceName |-> args.nicename,
                     Enabled |-> TRUE]))
      [] op \in {"CreateScheduledDowntimePeriod", "UpdateScheduledDowntimePeriod"} ->
             Enveloped(op, res, env, Ok([ID |-> env.id, HostID |-> args.hostid]))
      [] OTHER -> Enveloped(op, res, env, Done)


\* The arguments an operation is called with, and the parameters it hands to
\* makeFormRequest (the settings of a sensor and the times of a period are
\* left out).
ArgsOf(op) ==
    CASE op \in {"CreateHost", "GetHost", "DeleteHost", "DisableHostUptimeMonitoring",
                 "EnableHostUptimeMonitoring"} ->
             [id |-> 42, name |-> "web", testInterval |-> 60, enabled |-> TRUE]
      [] op \in {"CreateSensorHTTP", "GetSensorHTTP", "DeleteSensorHTTP", "ListSensorHTTP",
                 "EnableSensorHTTP", "DisableSensorHTTP"} ->
             [id |-> 5, hostid |-> 42, nicename |-> "home", url |-> "https://example.com"]
      [] op = "SetGlobalAlertMute" -> [enabled |-> TRUE]
      [] OTHER -> [id |-> 9, hostid |-> 42]

ParamsOf(op, args) ==
    CASE op = "CreateHost" ->
             [k \in {"name", "testinterval"} |->
                 IF k = "name" THEN args.name ELSE Itoa(args.testInterval)]
      [] op \in {"GetHost", "DeleteHost", "DisableHostUptimeMonitoring",
                 "EnableHostUptimeMonitoring"} ->
             [k \in {"hostid"} |-> Itoa(args.id)]
      [] op = "CreateSensorHTTP" ->
             [k \in {"hostid", "url"} |-> IF k = "url" THEN args.url ELSE Itoa(args.hostid)]
      [] op \in {"DeleteSensorHTTP", "EnableSensorHTTP", "DisableSensorHTTP"} ->
             [k \in {"hsid"} |-> Itoa(args.id)]
      [] op \in {"UpdateScheduledDowntimePeriod", "DeleteScheduledDowntimePeriod"} ->
             [k \in {"hostid", "periodid"} |->
                 IF k = "hostid" THEN Itoa(args.hostid) ELSE Itoa(args.id)]
      [] op = "SetGlobalAlertMute" ->
             [k \in {"alertsmuted"} |-> IF args.enabled THEN "1" ELSE "0"]
      [] OTHER -> [k \in {"hostid"} |-> Itoa(args.hostid)]

\* What the JSON of a 2xx response can decode to: an errorcode, zero or not,
\* a message, the id of what was created, and the entries of a list.
HostStatuses ==
    [hostid : {7, 42}, name : {"web"}, uptimemonitored : BOOLEAN, healthmonitored : BOOLEAN]
Sensors == [hsid : {"5", "6", "x"}, sensorid : {"2", "3"}, enabled : {"1", "0"},
            nicename : {"home"}]
Periods == [periodid : {8, 9}]
Lists(S) == {<<>>} \cup {<<e>> : e \in S} \cup {<<d, e>> : d \in S, e \in S}
EntriesOf(op) ==
    CASE op = "GetHost" -> Lists(HostStatuses)
      [] op \in {"GetSensorHTTP", "ListSensorHTTP"} -> Lists(Sensors)
      [] op \in {"GetScheduledDowntimePeriod", "GetScheduledDowntimePeriods"} ->
             Lists(Periods)
      [] OTHER -> {<<>>}
Envelopes(op) ==
    [errorcode : {0, 1}, message : {"denied"}, id : {42}, entries : EntriesOf(op)]

(***************************************************************************)
(* One operation of Client at a time, against every decoded response.  The *)
(* operation returns once its call of makeFormRequest has returned.        *)
(***************************************************************************)
Returns ==
    /\ api.op # "none"
    /\ pc[1] = "done"
    /\ returned = <<>>
    /\ returned' = <<Return(api.op, api.args, result[1], api.env)>>
    /\ UNCHANGED <<cfgVars, inVars, fnVars, callVars, providerConfig, resourceData, diags,
                   api, resVars>>

InitApi ==
    /\ maxRetries \in {-1, 0}
    /\ initialBackoff = 1
    /\ backoffMultiplier = <<2, 1>>
    /\ maxBackoff = 2
    /\ tokenInterval = 1
    /\ apiKey = "key-1"
    /\ debugEnabled = FALSE
    /\ transport = Transport
    /\ \E op \in DOMAIN Operations :
        \E env \in Envelopes(op) :
            /\ api = [op |-> op, args |-> ArgsOf(op), env |-> env]
            /\ command = [c \in Calls |-> Operations[op].command]
            /\ params = [c \in Calls |-> ParamsOf(op, ArgsOf(op))]
    /\ callerHeader = [c \in Calls |-> NoHeader]
    /\ returned = <<>>
    /\ ClientBuilt
    /\ NoResource
    /\ NoCalls
    /\ NoFn

NextApi ==
    \/ Start(1, "Form")
    \/ CtxDone(1)
    \/ FormAttempt(1)
    \/ Returns

SpecApi == InitApi /\ [][NextApi]_vars


(***************************************************************************)
(* The resources (part_004, resource_sensor_http.go,                       *)
(* resource_global_alerts_mute.go).  A handler runs as one step: it reads  *)
(* its request, calls operations of the client, each of which answers with *)
(* anything the operation can return, and leaves diagnostics and a state.  *)
(* Read and Update start from the prior state as the state of their        *)
(* response; after a Delete without error Terraform drops the state.       *)
(***************************************************************************)
\* What makeFormRequest can return (client.go:206-312).
FormResults ==
    {Returned(0, "none", 0, NilErr), Returned(0, "limiter", 0, NilErr),
     Returned(0, "read", StatusOK, NilErr), Returned(0, "decode", StatusOK, NilErr)}
    \cup {Returned(0, "net", 0, e) :
              e \in transport.errors \cup {BodyGoneErr, <<"url.Error", "context.Canceled">>,
                                           <<"url.Error", "context.DeadlineExceeded">>}}
    \cup {Returned(0, "http", st, NilErr) :
              st \in {t \in transport.statuses : isTransientHTTPError(t)}}
    \cup {Returned(0, "status", st, <<BodyRead(b)>>) :
              st \in {t \in transport.statuses :
                          ~isTransientHTTPError(t) /\ (t < 200 \/ t >= 300)},
              b \in Bodies}
    \cup (IF maxRetries < 0 THEN {Returned(0, "exhausted", 0, NilErr)} ELSE {})

\* What the operation op, called with args, can return.
Answers(op, args) ==
    {Return(op, args, res, env) : res \in FormResults, env \in Envelopes(op)}

RECURSIVE Concat(_)
Concat(pieces) == IF pieces = <<>> THEN "" ELSE pieces[1] \o Concat(Tail(pieces))
\* error.Error().
ErrorString(err) == Concat(err)

\* isNotFoundError (part_004:728-732).
isNotFoundError(err) == err # NilErr /\ ErrorString(err) = "404 Not Found"

\* strings.Contains(err.Error(), sub) for the texts "404" and "not found":
\* which of them a piece of an error's text has in it.
Mentions(piece) ==
    CASE piece \in {" not found", " not found for host "} -> {"not found"}
      [] piece = "404" -> {"404"}
      [] OTHER -> {}
Contains(err, sub) == \E i \in 1..Len(err) : sub \in Mentions(err[i])

\* The handler name returns: the state and the error diagnostics of its
\* response, and the record of what it was given and what it called.
Respond(name, plan, sent, newState, errors) ==
    /\ handler' = [name |-> name, prior |-> state, plan |-> plan, sent |-> sent]
    /\ state' = newState
    /\ diags' = errors
    /\ UNCHANGED <<cfgVars, inVars, fnVars, callVars, providerConfig, resourceData, apiVars,
                   resource>>

\* An operation called, with its arguments and its answer.
Sent(op, args, answer) == [op |-> op, args |-> args, answer |-> answer]

\* types.Bool.Equal on two known values (part_004:664;
\* resource_sensor_http.go:400).
EqualNever(a, b) == FALSE

Equal(a, b) == a = b

HostPlans == [name : {"web"}, test_interval : {60}, enabled : BOOLEAN]

\* The call by which Create brings a new host to the planned enabled
\* (part_004:583-599).
MonitoringOpEnableOnly(desiredEnabled) == "EnableHostUptimeMonitoring"

MonitoringOp(desiredEnabled) ==
    IF desiredEnabled THEN "EnableHostUptimeMonitoring"
    ELSE "DisableHostUptimeMonitoring"

\* hostResource.Create (part_004:562-605).
HostCreate ==
    /\ resource = "host"
    /\ state = Null
    /\ \E plan \in HostPlans :
        \E a \in Answers("CreateHost", [name |-> plan.name,
                                        testInterval |-> plan.test_interval,
                                        enabled |-> plan.enabled]) :
            LET create == Sent("CreateHost", [name |-> plan.name,
                                              testInterval |-> plan.test_interval,
                                              enabled |-> plan.enabled], a)
                host == a.entity[1]
                op == MonitoringOp(plan.enabled)
            IN  IF a.err # NilErr
                THEN Respond("Create", Known(plan), <<create>>, Null, <<"Client Error">>)
                ELSE \E b \in Answers(op, [id |-> host.ID]) :
                        LET sent == <<create, Sent(op, [id |-> host.ID], b)>>
                        IN  IF b.err # NilErr
                            THEN Respond("Create", Known(plan), sent, Null,
                                         <<"Client Error">>)
                            ELSE Respond("Create", Known(plan), sent,
                                         Known([id |-> Itoa(host.ID), name |-> host.Name,
                                                test_interval |-> host.TestInterval,
                                                enabled |-> plan.enabled]),
                                         <<>>)

\* hostResource.Read (part_004:607-642) on the state data, GetHost having
\* answered a: the state and the diagnostics of the response.
HostReadResponse(data, a) ==
    IF a.err # NilErr
    THEN IF isNotFoundError(a.err)
         THEN [state |-> Null, errors |-> <<>>]
         ELSE [state |-> Known(data), errors |-> <<"Client Error">>]
    ELSE [state |-> Known([id |-> data.id, name |-> a.entity[1].Name,
                           test_interval |-> a.entity[1].TestInterval,
                           enabled |-> a.entity[1].Enabled]),
          errors |-> <<>>]

HostRead ==
    /\ resource = "host"
    /\ IsSet(state)
    /\ LET data == state[1]
           id == Atoi(data.id)
       IN  IF id.err # NilErr
           THEN Respond("Read", Null, <<>>, state, <<"Parse Error">>)
           ELSE \E a \in Answers("GetHost", [id |-> id.n]) :
                   Respond("Read", Null, <<Sent("GetHost", [id |-> id.n], a)>>,
                           HostReadResponse(data, a).state,
                           HostReadResponse(data, a).errors)

\* hostResource.ImportState (part_004:722-725) and the Read Terraform runs on
\* the state it leaves; an import whose Read fails or removes the resource
\* leaves no state.
HostImport ==
    /\ resource = "host"
    /\ state = Null
    /\ \E given \in {"42", "7", "abc"} :
        LET data == [id |-> given, name |-> Null, test_interval |-> Null, enabled |-> Null]
            id == Atoi(given)
        IN  IF id.err # NilErr
            THEN Respond("ImportState", Known(given), <<>>, Null, <<"Parse Error">>)
            ELSE \E a \in Answers("GetHost", [id |-> id.n]) :
                    LET read == HostReadResponse(data, a)
                    IN  Respond("ImportState", Known(given),
                                <<Sent("GetHost", [id |-> id.n], a)>>,
                                IF read.errors = <<>> THEN read.state ELSE Null,
                                IF read.errors = <<>> /\ read.state = Null
                                THEN <<"Cannot import non-existent remote object">>
                                ELSE read.errors)

\* hostResource.Update (part_004:644-696).  The plan Terraform gives it has
\* the id, the name and the test_interval of the state: a change of name or
\* test_interval plans a replacement (part_004:518-532).
HostUpdate ==
    /\ resource = "host"
    /\ IsSet(state)
    /\ \E enabled \in BOOLEAN :
        LET prior == state[1]
            data == [prior EXCEPT !.enabled = enabled]
            id == Atoi(prior.id)
            op == IF ~data.enabled THEN "DisableHostUptimeMonitoring"
                  ELSE "EnableHostUptimeMonitoring"
            updatedState == [id |-> prior.id, name |-> prior.name,
                             test_interval |-> prior.test_interval,
                             enabled |-> data.enabled]
        IN  IF id.err # NilErr
            THEN Respond("Update", Known(data), <<>>, state, <<"Parse Error">>)
            ELSE IF ~Equal(data.enabled, prior.enabled)
            THEN \E a \in Answers(op, [id |-> id.n]) :
                    IF a.err # NilErr
                    THEN Respond("Update", Known(data), <<Sent(op, [id |-> id.n], a)>>,
                                 state, <<"Client Error">>)
                    ELSE Respond("Update", Known(data), <<Sent(op, [id |-> id.n], a)>>,
                                 Known(updatedState), <<>>)
            ELSE Respond("Update", Known(data), <<>>, Known(updatedState), <<>>)

\* hostResource.Delete (part_004:698-720).
HostDelete ==
    /\ resource = "host"
    /\ IsSet(state)
    /\ LET id == Atoi(state[1].id)
       IN  IF id.err # NilErr
           THEN Respond("Delete", Null, <<>>, state, <<"Parse Error">>)
           ELSE \E a \in Answers("DeleteHost", [id |-> id.n]) :
                   IF a.err # NilErr
                   THEN Respond("Delete", Null, <<Sent("DeleteHost", [id |-> id.n], a)>>,
                                state, <<"Client Error">>)
                   ELSE Respond("Delete", Null, <<Sent("DeleteHost", [id |-> id.n], a)>>,
                                Null, <<>>)


\* scheduledDowntimePeriodResource.Read (part_004:300-342), the times of the
\* period left out.
PeriodRead ==
    /\ resource = "period"
    /\ IsSet(state)
    /\ LET data == state[1]
           id == Atoi(data.id)
           args == [hostid |-> data.hostid, id |-> id.n]
       IN  IF id.err # NilErr
           THEN Respond("Read", Null, <<>>, state, <<"Parse Error">>)
           ELSE \E a \in Answers("GetScheduledDowntimePeriod", args) :
                   LET sent == <<Sent("GetScheduledDowntimePeriod", args, a)>>
                   IN  IF a.err # NilErr
                       THEN IF isNotFoundError(a.err)
                            THEN Respond("Read", Null, sent, Null, <<>>)
                            ELSE Respond("Read", Null, sent, state, <<"Client Error">>)
                       ELSE Respond("Read", Null, sent,
                                    Known([data EXCEPT !.hostid = a.entity[1].HostID]), <<>>)

\* strings.Split(id, "/") on the ids the model uses.
Split(id) ==
    CASE id = "42/5" -> <<"42", "5">>
      [] id = "42/6" -> <<"42", "6">>
      [] OTHER -> <<id>>

\* parseSensorID (resource_sensor_http.go:466-483).
parseSensorID(id) ==
    LET parts == Split(id)
    IN  IF Len(parts) # 2
        THEN [hostID |-> 0, sensorID |-> 0, err |-> <<"invalid ID format">>]
        ELSE IF Atoi(parts[1]).err # NilErr
        THEN [hostID |-> 0, sensorID |-> 0, err |-> <<"invalid host_id: ">>]
        ELSE IF Atoi(parts[2]).err # NilErr
        THEN [hostID |-> 0, sensorID |-> 0, err |-> <<"invalid sensor_id: ">>]
        ELSE [hostID |-> Atoi(parts[1]).n, sensorID |-> Atoi(parts[2]).n, err |-> NilErr]

\* sensorHTTPResource.Read (resource_sensor_http.go:333-368), the settings of
\* the sensor left out.
SensorRead ==
    /\ resource = "sensor"
    /\ IsSet(state)
    /\ LET data == state[1]
           id == parseSensorID(data.id)
           args == [hostid |-> id.hostID, id |-> id.sensorID]
       IN  IF id.err # NilErr
           THEN Respond("Read", Null, <<>>, state, <<"Parse Error">>)
           ELSE \E a \in Answers("GetSensorHTTP", args) :
                   LET sent == <<Sent("GetSensorHTTP", args, a)>>
                   IN  IF a.err # NilErr
                       THEN IF Contains(a.err, "404") \/ Contains(a.err, "not found")
                            THEN Respond("Read", Null, sent, Null, <<>>)
                            ELSE Respond("Read", Null, sent, state, <<"Client Error">>)
                       ELSE Respond("Read", Null, sent,
                                    Known([data EXCEPT !.host_id = a.entity[1].HostID,
                                                       !.nice_name = a.entity[1].NiceName,
                                                       !.enabled = a.entity[1].Enabled]),
                                    <<>>)

\* sensorHTTPResource.Update (resource_sensor_http.go:370-423).  The plan has
\* the settings of the state: a change of any of them plans a replacement.
SensorUpdate ==
    /\ resource = "sensor"
    /\ IsSet(state)
    /\ \E enabled \in BOOLEAN :
        LET prior == state[1]
            plan == [prior EXCEPT !.enabled = enabled]
            parts == Split(prior.id)
            hsid == Atoi(parts[2])
            op == IF plan.enabled THEN "EnableSensorHTTP" ELSE "DisableSensorHTTP"
            written == [plan EXCEPT !.id = prior.id]
        IN  IF parseSensorID(prior.id).err # NilErr \/ Len(parts) # 2 \/ hsid.err # NilErr
            THEN Respond("Update", Known(plan), <<>>, state, <<"Parse Error">>)
            ELSE IF ~Equal(plan.enabled, prior.enabled)
            THEN \E a \in Answers(op, [id |-> hsid.n]) :
                    IF a.err # NilErr
                    THEN Respond("Update", Known(plan), <<Sent(op, [id |-> hsid.n], a)>>,
                                 state, <<"Client Error">>)
                    ELSE Respond("Update", Known(plan), <<Sent(op, [id |-> hsid.n], a)>>,
                                 Known(written), <<>>)
            ELSE Respond("Update", Known(plan), <<>>, Known(written), <<>>)

\* types.Bool.ValueBool: false for a null value.
ValueBoolOfSet(v) == IsSet(v)

ValueBool(v) == IF IsSet(v) THEN v[1] ELSE FALSE

\* globalAlertsMuteResource.Create and Update
\* (resource_global_alerts_mute.go:81-102, 120-141): the same but for the
\* text of the diagnostic; data is the configuration of the resource.
MuteApply(name) ==
    \E configured \in {Null, Known(FALSE), Known(TRUE)} :
        LET data == [id |-> "global_alerts_mute", enabled |-> configured]
            args == [enabled |-> ValueBool(configured)]
        IN  \E a \in Answers("SetGlobalAlertMute", args) :
                IF a.err # NilErr
                THEN Respond(name, Known(data), <<Sent("SetGlobalAlertMute", args, a)>>,
                             state, <<"Client Error">>)
                ELSE Respond(name, Known(data), <<Sent("SetGlobalAlertMute", args, a)>>,
                             Known(data), <<>>)

MuteCreate ==
    /\ resource = "mute"
    /\ state = Null
    /\ MuteApply("Create")

MuteUpdate ==
    /\ resource = "mute"
    /\ IsSet(state)
    /\ MuteApply("Update")

\* globalAlertsMuteResource.Read (resource_global_alerts_mute.go:104-118).
MuteRead ==
    /\ resource = "mute"
    /\ IsSet(state)
    /\ Respond("Read", Null, <<>>, Known(state[1]), <<>>)

\* globalAlertsMuteResource.Delete (resource_global_alerts_mute.go:143-159).
MuteDelete ==
    /\ resource = "mute"
    /\ IsSet(state)
    /\ \E a \in Answers("SetGlobalAlertMute", [enabled |-> FALSE]) :
        LET sent == <<Sent("SetGlobalAlertMute", [enabled |-> FALSE], a)>>
        IN  IF a.err # NilErr
            THEN Respond("Delete", Null, sent, state, <<"Client Error">>)
            ELSE Respond("Delete", Null, sent, Null, <<>>)

\* A resource of each kind, without state or with a state as its Create or
\* its import wrote it (part_004:291-298, 454-456;
\* resource_sensor_http.go:325-331, 458-459).
ResourceStates(r) ==
    CASE r = "period" -> {Known([id |-> "9", hostid |-> 42])}
      [] r = "sensor" ->
             {Known([id |-> "42/5", host_id |-> 42, nice_name |-> "home", enabled |-> e]) :
                  e \in BOOLEAN}
      [] OTHER -> {Null}

InitRes ==
    /\ resource \in {"host", "period", "sensor", "mute"}
    /\ state \in ResourceStates(resource)
    /\ handler = NoHandler
    /\ maxRetries = 1
    /\ initialBackoff = 1
    /\ backoffMultiplier = <<2, 1>>
    /\ maxBackoff = 2
    /\ tokenInterval = 1
    /\ apiKey = "key-1"
    /\ debugEnabled = FALSE
    /\ transport = WideTransport
    /\ PlainCalls
    /\ ClientBuilt
    /\ NoApi
    /\ NoCalls
    /\ NoFn

NextRes ==
    \/ HostCreate
    \/ HostImport
    \/ HostRead
    \/ HostUpdate
    \/ HostDelete
    \/ PeriodRead
    \/ SensorRead
    \/ SensorUpdate
    \/ MuteCreate
    \/ MuteRead
    \/ MuteUpdate
    \/ MuteDelete

SpecRes == InitRes /\ [][NextRes]_vars


(***************************************************************************)
(* The claims.                                                             *)
(***************************************************************************)
\* The HTTP requests call c has issued.
requests(c) == Len(log[c])

\* The transient statuses, as the specification lists them.
TransientSet == {429, 500, 502, 503, 504}

\* The first n attempts of call c all received a transient HTTP status.
TransientStatuses(c, n) ==
    \A i \in 1..n : log[c][i].err = NilErr /\ log[c][i].status \in TransientSet

\* C1: for every maxRetries >= 0, a Do call all of whose attempts received a
\* transient HTTP status issues exactly maxRetries+1 requests and then returns
\* an error and no response; it never issues more than maxRetries+1.
C1_ExhaustionMakesMaxRetriesPlusOne ==
    \A c \in Calls :
        (/\ kind[c] = "Do"
         /\ maxRetries >= 0
         /\ requests(c) >= 1
         /\ TransientStatuses(c, requests(c)))
        => /\ requests(c) <= maxRetries + 1
           /\ pc[c] = "done" =>
                /\ requests(c) = maxRetries + 1
                /\ result[c].resp = 0
                /\ result[c].kind = "http"
                /\ result[c].status = log[c][requests(c)].status

C1_Witness ==
    \E c \in Calls :
        /\ kind[c] = "Do" /\ pc[c] = "done"
        /\ maxRetries = 2 /\ requests(c) = 3
        /\ TransientStatuses(c, 3)

\* C2: a Do call whose first k attempts (0 <= k <= maxRetries) received
\* transient HTTP statuses and whose attempt k+1 received 200 has issued exactly
\* k+1 requests and has returned that 200 response with a nil error.
C2_SuccessAfterTransientFailures ==
    \A c \in Calls : \A i \in 1..requests(c) :
        (/\ kind[c] = "Do"
         /\ TransientStatuses(c, i - 1)
         /\ log[c][i].err = NilErr /\ log[c][i].status = 200)
        => /\ i - 1 <= maxRetries
           /\ requests(c) = i
           /\ pc[c] = "done"
           /\ result[c] = Returned(200, "none", 0, NilErr)

C2_Witness ==
    \E c \in Calls :
        /\ kind[c] = "Do" /\ pc[c] = "done"
        /\ maxRetries = 2 /\ requests(c) = 3
        /\ TransientStatuses(c, 2)
        /\ log[c][3].status = 200
        /\ result[c].resp = 200

\* The dispatches of the client: <<call, attempt number>>.
Dispatches == {d \in Calls \X (1..(MaxRetriesB + 1)) : d[2] <= requests(d[1])}
DispatchTime(d) == log[d[1]][d[2]].at
Dist(a, b) == IF a >= b THEN a - b ELSE b - a

\* C3: no two HTTP requests sent through one client are dispatched less than
\* 1/requestsPerSecond apart, first attempts and retries alike.
C3_RequestsSpacedByTokenInterval ==
    \A d \in Dispatches : \A e \in Dispatches :
        d # e => Dist(DispatchTime(d), DispatchTime(e)) >= tokenInterval

\* C4: in Do the limiter is acquired before every attempt: a Do call has
\* obtained as many tokens as it has issued requests.
C4_DoAcquiresBeforeEveryAttempt ==
    \A c \in Calls : kind[c] = "Do" => acquired[c] >= requests(c)

\* C5: a form-command call acquires the limiter exactly once, before its first
\* attempt; its retries issue their requests without acquiring it again.
C5_FormAcquiresOnce ==
    \A c \in Calls :
        kind[c] = "Form" =>
            /\ acquired[c] <= 1
            /\ (pc[c] \in {"attempt", "sleep"} \/ requests(c) >= 1) => acquired[c] = 1

C5_Witness ==
    \E c \in Calls :
        /\ kind[c] = "Form" /\ requests(c) = 3 /\ acquired[c] = 1

\* C6: a call whose context is done before the limiter grants it a token fails
\* at once, with the rate-limiter-wait error and without any HTTP request.
C6_CancelledBeforeTokenFails ==
    [][\A c \in Calls :
         /\ (ctx[c] # "live" /\ (pc[c] = "idle" \/ (pc[c] = "wait" /\ now < until[c])))
            => /\ now' = now \/ pc[c] = "idle"
               /\ pc'[c] # pc[c] =>
                    /\ pc'[c] = "done"
                    /\ result'[c].kind = "limiter"
                    /\ result'[c].resp = 0
                    /\ requests(c)' = 0
         /\ result'[c].kind = "limiter" => (requests(c)' = 0 /\ acquired'[c] = 0)
      ]_vars

C6_Witness ==
    \E c \in Calls :
        /\ pc[c] = "done" /\ result[c].kind = "limiter"
        /\ now < until[c]
        /\ kind[c] = "Form"

\* C7: a call whose context is done while it sleeps between attempts stops
\* waiting: no time passes with the call still asleep, and it issues no
\* further request.
C7_CancelledSleepEndsAtOnce ==
    [][\A c \in Calls :
         (pc[c] = "sleep" /\ ctx[c] # "live")
         => /\ now' = now
            /\ requests(c)' = requests(c)
            /\ pc'[c] \in {"sleep", "done"}
      ]_vars

\* C8: when an attempt of Do receives a non-transient HTTP status, Do issues no
\* further request and returns that response with a nil error; one request is
\* made when the first status is non-transient.
C8_NonTransientStatusIsReturned ==
    \A c \in Calls : \A i \in 1..requests(c) :
        (/\ kind[c] = "Do"
         /\ log[c][i].err = NilErr
         /\ log[c][i].status \notin TransientSet)
        => /\ requests(c) = i
           /\ pc[c] = "done"
           /\ result[c] = Returned(log[c][i].status, "none", 0, NilErr)

C8_Witness ==
    \E c \in Calls :
        /\ kind[c] = "Do" /\ pc[c] = "done"
        /\ maxRetries = 2 /\ requests(c) = 1
        /\ log[c][1].status = 404
        /\ result[c] = Returned(404, "none", 0, NilErr)

\* C9: isTransientHTTPError(s) is true exactly for s in {429, 500, 502, 503, 504}.
C9_TransientStatusesExactly ==
    (fnIn[1] = "isTransientHTTPError" /\ fnOut # <<>>)
    => (fnOut[1] <=> fnIn[2] \in {429, 500, 502, 503, 504})

C9_Witness ==
    /\ fnIn = <<"isTransientHTTPError", 429>>
    /\ fnOut = <<TRUE>>

\* The product current * backoffMultiplier, times the multiplier's denominator.
ScaledProduct(current) == current * backoffMultiplier[1]

\* t is the product p / den (p >= 0) truncated to a whole number.
IsTruncated(t, p) ==
    LET den == backoffMultiplier[2]
    IN  den * t <= p /\ p < den * (t + 1)

\* The backoffs TestClient_Do_BackoffCap expects: 100ms, then 200ms each time.
CappedSeq(i) == IF i = 1 THEN 100000000 ELSE 200000000

IsTestConfig ==
    /\ initialBackoff = 100000000
    /\ backoffMultiplier = <<3, 1>>
    /\ maxBackoff = 200000000

RECURSIVE Pow(_, _)
Pow(b, e) == IF e = 0 THEN 1 ELSE b * Pow(b, e - 1)

\* C11 (as claimed): the sleep before the i-th retry lasts exactly
\* min(initialBackoff * multiplier^(i-1), maxBackoff).
C11_SleepIsExactMin ==
    \A c \in Calls : \A i \in 1..Len(sleeps[c]) :
        Pow(backoffMultiplier[2], i - 1) * sleeps[c][i]
            = Min(initialBackoff * Pow(backoffMultiplier[1], i - 1),
                  maxBackoff * Pow(backoffMultiplier[2], i - 1))

\* C11 (amended): the first sleep of a call lasts initialBackoff and every later
\* one min(t, maxBackoff), where t is the sleep before it times the multiplier,
\* truncated to a whole duration; a call that has made n attempts has slept
\* n - 1 times when it is about to make the next attempt or has returned, and n
\* times while it sleeps, so there is one sleep between consecutive attempts and
\* none after the last.
C11_SleepsFollowBackoff ==
    \A c \in Calls :
        /\ \A i \in 1..Len(sleeps[c]) :
            IF i = 1 THEN sleeps[c][i] = initialBackoff
            ELSE /\ sleeps[c][i] <= maxBackoff
                 /\ sleeps[c][i] < maxBackoff =>
                        IsTruncated(sleeps[c][i], ScaledProduct(sleeps[c][i - 1]))
                 /\ sleeps[c][i] = maxBackoff =>
                        ScaledProduct(sleeps[c][i - 1]) >= backoffMultiplier[2] * maxBackoff
        /\ pc[c] = "sleep" => Len(sleeps[c]) = attempt[c] + 1
        /\ pc[c] \in {"attempt", "done"} => Len(sleeps[c]) = attempt[c]
        /\ Len(sleeps[c]) <= Max(maxRetries, 0)

C11_Witness ==
    \E c \in Calls :
        /\ pc[c] = "done"
        /\ attempt[c] = 2
        /\ maxRetries = 2
        /\ sleeps[c] = <<1, 2>>
        /\ backoffMultiplier = <<2, 1>>

\* C12: a network error with Timeout() = true is classified transient; one with
\* only Temporary() = true, a DNS error without timeout, a generic error and nil
\* are classified non-transient (the loops retry exactly the errors classified
\* transient, client.go:118, 251).
C12_TimeoutDecides ==
    (fnIn[1] = "isTransientNetworkError" /\ fnOut # <<>>) =>
        /\ fnIn[2] \in {<<"timeoutError">>, <<"net.OpError", "timeoutError">>,
                        <<"url.Error", "net.OpError", "timeoutError">>}
               => fnOut[1] = TRUE
        /\ fnIn[2] \in {<<"temporaryError">>, <<"net.OpError", "temporaryError">>,
                        <<"url.Error", "net.OpError", "temporaryError">>,
                        <<"net.OpError", "DNSError">>}
               => fnOut[1] = FALSE
        /\ fnIn[2] \in {NilErr, <<"generic">>, <<"url.Error", "generic">>}
               => fnOut[1] = FALSE

C12_Witness ==
    /\ fnIn[1] = "isTransientNetworkError"
    /\ fnIn[2] = <<"net.OpError", "temporaryError">>
    /\ fnOut = <<FALSE>>

\* C13 (as claimed): a net operation error whose cause is connection-refused,
\* connection-reset or socket timed-out is classified transient, and so is a URL
\* error wrapping such an operation error.
C13_ConnectionFaultsAreTransient ==
    (/\ fnIn[1] = "isTransientNetworkError"
     /\ fnOut # <<>>
     /\ fnIn[2] \in {<<"net.OpError", e>> : e \in Errnos}
                    \cup {<<"url.Error", "net.OpError", e>> : e \in Errnos})
        => fnOut[1] = TRUE

\* An answer of the transport that the specification calls transient: a status
\* of the transient set, or an error that reports Timeout() = true.
TransientAnswer(e) ==
    IF e.err = NilErr THEN e.status \in TransientSet
    ELSE e.err[Len(e.err)] \in {"ETIMEDOUT", "timeoutError"}

\* An error of the transport that reports Timeout() = false and is no connection
\* fault.
NonTransientError(e) ==
    e.err # NilErr /\ e.err[Len(e.err)] = "temporaryError"

\* C14 (as claimed): a call that made all maxRetries + 1 attempts, each failing
\* transiently, returns an error that indicates retry exhaustion and wraps the
\* last transient error.
C14_ExhaustionErrorWrapsLast ==
    \A c \in Calls :
        (/\ pc[c] = "done"
         /\ maxRetries >= 0
         /\ requests(c) = maxRetries + 1
         /\ \A i \in 1..requests(c) : TransientAnswer(log[c][i]))
        => /\ result[c].kind = "exhausted"
           /\ result[c].status = log[c][requests(c)].status
           /\ result[c].cause = log[c][requests(c)].err

\* C15: every attempt but the last of a call failed transiently; an attempt that
\* ends in a non-transient network error, or in makeFormRequest in a 2xx body
\* that is not JSON, is the last one: the call has returned that error and has
\* not slept after the attempt, whatever retries remain.
C15_OnlyTransientFailuresRetry ==
    \A c \in Calls : \A i \in 1..requests(c) :
        /\ i < requests(c) => TransientAnswer(log[c][i])
        /\ NonTransientError(log[c][i])
            => /\ i = requests(c) /\ pc[c] = "done"
               /\ result[c] = Returned(0, "net", 0, log[c][i].err)
               /\ Len(sleeps[c]) = i - 1
        /\ (/\ kind[c] = "Form" /\ log[c][i].err = NilErr
            /\ log[c][i].status >= 200 /\ log[c][i].status < 300
            /\ log[c][i].body = "notjson")
            => /\ i = requests(c) /\ pc[c] = "done"
               /\ result[c].kind = "decode"
               /\ Len(sleeps[c]) = i - 1

C15_Witness ==
    \E c \in Calls :
        /\ kind[c] = "Form" /\ pc[c] = "done"
        /\ maxRetries = 2 /\ requests(c) = 2
        /\ log[c][2].body = "notjson"
        /\ result[c].kind = "decode"

\* C16: in makeFormRequest an attempt that receives a status outside 2xx and
\* outside the transient set is the last one: the call has returned an error
\* that carries the status and the body as it was read.
C16_NonTransientStatusEndsFormCall ==
    \A c \in Calls : \A i \in 1..requests(c) :
        (/\ kind[c] = "Form" /\ log[c][i].err = NilErr
         /\ (log[c][i].status < 200 \/ log[c][i].status >= 300)
         /\ log[c][i].status \notin TransientSet)
        => /\ i = requests(c) /\ pc[c] = "done"
           /\ result[c].kind = "status"
           /\ result[c].status = log[c][i].status
           /\ log[c][i].body # "unreadable" => result[c].cause = <<log[c][i].body>>
           /\ Len(sleeps[c]) = i - 1

C16_Witness ==
    \E c \in Calls :
        /\ kind[c] = "Form" /\ pc[c] = "done"
        /\ maxRetries = 2 /\ requests(c) = 2
        /\ log[c][2].status = 404 /\ log[c][2].body = "notjson"
        /\ result[c] = Returned(0, "status", 404, <<"notjson">>)

\* C17: a makeFormRequest call that has returned has returned nil exactly when
\* its last attempt received a 2xx status with a body that was read in full and
\* decoded as JSON; every other call has returned an error.
C17_NilOnlyAfterDecoded2xx ==
    \A c \in Calls :
        (kind[c] = "Form" /\ pc[c] = "done")
        => (result[c].kind = "none"
            <=> /\ requests(c) >= 1
                /\ log[c][requests(c)].err = NilErr
                /\ log[c][requests(c)].status >= 200
                /\ log[c][requests(c)].status < 300
                /\ log[c][requests(c)].body = "json")

C17_Witness ==
    \E c \in Calls :
        /\ kind[c] = "Form" /\ pc[c] = "done"
        /\ requests(c) = 2
        /\ log[c][2].status = 200 /\ log[c][2].body = "json"
        /\ result[c].kind = "none"

\* The value Do gives a header the caller left out (client.go:97, 100, 103).
DefaultHeader(name) ==
    CASE name = "Authorization" -> "Bearer " \o apiKey
      [] name = "User-Agent" -> userAgent
      [] OTHER -> "application/json"

C19_FixedFieldsAlwaysPresent ==
    \A c \in Calls :
        (kind[c] = "Form" /\ acquired[c] >= 1)
        => /\ form[c]["cmd"] = command[c]
           /\ form[c]["key"] = apiKey
           /\ form[c]["response"] = "json"
           /\ \A k \in DOMAIN params[c] : form[c][k] = params[c][k]

\* C19 (amended): the form data has exactly the fields cmd, key and response
\* and the caller's parameters; every parameter has the caller's value, and cmd,
\* key and response are the command, the API key and json unless the caller's
\* map has a parameter of that name.
C19_FixedFieldsUnlessOverridden ==
    \A c \in Calls :
        (kind[c] = "Form" /\ acquired[c] >= 1)
        => /\ DOMAIN form[c] = {"cmd", "key", "response"} \cup DOMAIN params[c]
           /\ \A k \in DOMAIN params[c] : form[c][k] = params[c][k]
           /\ "cmd" \notin DOMAIN params[c] => form[c]["cmd"] = command[c]
           /\ "key" \notin DOMAIN params[c] => form[c]["key"] = apiKey
           /\ "response" \notin DOMAIN params[c] => form[c]["response"] = "json"

C19_Witness ==
    \E c \in Calls :
        /\ kind[c] = "Form" /\ pc[c] = "done" /\ acquired[c] = 1
        /\ DOMAIN params[c] = {"hostid", "cmd"}
        /\ form[c]["cmd"] = "caller"
        /\ form[c]["hostid"] = "42"
        /\ form[c]["key"] = apiKey
        /\ form[c]["response"] = "json"

\* C20: no argument of a line logged by a makeFormRequest call is the client's
\* API key, for either API key, the command, the parameters and the server's
\* answers being the same; without debug mode nothing is logged.
C20_KeyNeverLogged ==
    \A c \in Calls :
        /\ kind[c] = "Form" =>
              \A i \in 1..Len(logged[c]) : \A j \in 1..Len(logged[c][i]) :
                  logged[c][i][j] # apiKey
        /\ ~debugEnabled => logged[c] = <<>>

C20_Witness ==
    \E c \in Calls :
        /\ kind[c] = "Form" /\ pc[c] = "done" /\ debugEnabled
        /\ apiKey = "key-2"
        /\ requests(c) = 2
        /\ form[c]["key"] = apiKey
        /\ Len(logged[c]) = 5
        /\ logged[c][1] = <<"Wormly API request - command: %s, params: %+v",
                            "getHostStatus", "hostid", "42">>
        /\ logged[c][5] = <<"Wormly API response: %s", "json">>

\* The response bodies of call c that are open after the first n of its events.
OpenBodies(c, n) ==
    Cardinality({i \in 1..n : bodies[c][i] = "open"})
        - Cardinality({i \in 1..n : bodies[c][i] = "close"})

\* C21: a makeFormRequest call has at most one response body open at any
\* time, it has opened one body for each response it got, and none is open
\* while it sleeps before a retry, when it issues the next attempt or once it
\* has returned.
C21_FormBodiesClosed ==
    \A c \in Calls :
        kind[c] = "Form" =>
            /\ \A n \in 0..Len(bodies[c]) : OpenBodies(c, n) \in {0, 1}
            /\ Cardinality({i \in 1..Len(bodies[c]) : bodies[c][i] = "open"})
                   = Cardinality({i \in 1..requests(c) : log[c][i].err = NilErr})
            /\ OpenBodies(c, Len(bodies[c])) = 0

C21_Witness ==
    \E c \in Calls :
        /\ kind[c] = "Form" /\ pc[c] = "sleep"
        /\ requests(c) = 1
        /\ log[c][1].status = 500
        /\ bodies[c] = <<"open", "close">>

\* The retry state of a call, and what it has done.
Local(c) == <<pc[c], attempt[c], backoff[c], sleeps[c], log[c], result[c]>>

RECURSIVE BackoffAfter(_)
\* The backoff of a call that has slept n times.
BackoffAfter(n) ==
    IF n = 0 THEN initialBackoff ELSE calculateNextBackoff(BackoffAfter(n - 1))

\* C22: whatever the other calls do, a call in its loop has an attempt counter
\* equal to the number of sleeps it has finished and a backoff that is
\* initialBackoff updated once per finished sleep, a Do call's attempt counter
\* follows the number of its own requests, and no step changes the retry state
\* of two calls.
C22_RetryStateIsPrivate ==
    /\ [](\A c \in Calls :
            acquired[c] >= 1 =>
                /\ attempt[c] = Len(sleeps[c]) - (IF pc[c] = "sleep" THEN 1 ELSE 0)
                /\ backoff[c] = BackoffAfter(attempt[c])
                /\ \A i \in 1..Len(sleeps[c]) : sleeps[c][i] = BackoffAfter(i - 1)
                /\ (kind[c] = "Do" /\ maxRetries >= 0) =>
                       requests(c) = attempt[c] + (IF pc[c] = "attempt" THEN 0 ELSE 1))
    /\ [][\A c, d \in Calls :
            c # d => (Local(c)' = Local(c) \/ Local(d)' = Local(d))]_vars

C22_Witness ==
    /\ pc[1] = "sleep" /\ attempt[1] = 1 /\ backoff[1] = 2
    /\ pc[2] = "sleep" /\ attempt[2] = 0 /\ backoff[2] = 1
    /\ sleeps[1] = <<1, 2>> /\ sleeps[2] = <<1>>

\* A call that made one request and returned without error.
FirstAttemptSucceeded(c) ==
    /\ pc[c] = "done" /\ requests(c) = 1
    /\ result[c].kind = "none"

Accepted == resourceData = "client" /\ diags = <<>>

\* C24 (as claimed): every client Configure builds, for every configuration it
\* accepts without error, has maxRetries >= 0, initialBackoff > 0,
\* backoffMultiplier >= 1 and maxBackoff >= initialBackoff.
C24_BuiltClientSatisfiesInvariant ==
    Accepted =>
        /\ maxRetries >= 0
        /\ initialBackoff > 0
        /\ backoffMultiplier[1] >= backoffMultiplier[2]
        /\ maxBackoff >= initialBackoff

\* C25 (as claimed): a client built from a configuration that does not set
\* requests_per_second has a rate ceiling of 10 requests per second, and the
\* other attributes left unset give max_retries 3, initial_backoff 1s,
\* backoff_multiplier 2.0 and max_backoff 30s.
C25_DefaultsAsDocumented ==
    Accepted =>
        /\ ~IsSet(providerConfig.requests_per_second) => tokenInterval = Second \div 10
        /\ ~IsSet(providerConfig.max_retries) => maxRetries = 3
        /\ ~IsSet(providerConfig.initial_backoff) => initialBackoff = Second
        /\ ~IsSet(providerConfig.backoff_multiplier) => backoffMultiplier = <<2, 1>>
        /\ ~IsSet(providerConfig.max_backoff) => maxBackoff = 30 * Second

\* The call of makeFormRequest got a 2xx response and decoded its JSON.
Decoded(c) ==
    /\ pc[c] = "done" /\ result[c].kind = "none"
    /\ requests(c) >= 1
    /\ log[c][requests(c)].status \in 200..299
    /\ log[c][requests(c)].body = "json"

\* C26: every operation of Client whose 2xx response decodes to an errorcode
\* other than 0 returns an error and no result; an operation returns a result
\* only when the response was decoded and its errorcode is 0, and then it
\* returns no error.
C26_NonzeroErrorcodeIsAnError ==
    returned # <<>> =>
        /\ (Decoded(1) /\ api.env.errorcode # 0) =>
               /\ returned[1].err # NilErr
               /\ returned[1].entity = <<>>
        /\ returned[1].entity # <<>> =>
               /\ Decoded(1)
               /\ api.env.errorcode = 0
               /\ returned[1].err = NilErr

C26_Witness ==
    /\ returned # <<>>
    /\ api.op = "GetHost"
    /\ Decoded(1)
    /\ api.env.errorcode = 1
    /\ \E i \in 1..Len(api.env.entries) : api.env.entries[i].hostid = 42
    /\ returned[1] = Failed(<<"API returned error code ", "1">>)

\* The error with which GetHost, GetSensorHTTP and GetScheduledDowntimePeriod
\* report that the entity is not in the response.
IsNotFound(err) ==
    /\ err # NilErr
    /\ err[1] \in {"host with ID ", "HTTP sensor with ID ",
                   "scheduled downtime period with ID "}
    /\ Contains(err, "not found")

\* The Read of resource kind r has run and called the client.
ReadCalled(r) ==
    /\ resource = r
    /\ handler.name = "Read"
    /\ handler.sent # <<>>

\* C27 (as claimed): a Read of a host, a scheduled downtime period or an HTTP
\* sensor whose client call returned the not-found error removes the resource
\* from state and adds no error diagnostic; after any other error of the
\* client (an HTTP 404 answer set aside, which the text may count either way)
\* it adds an error diagnostic and leaves the state as it was.
C27_ReadTreatsNotFoundAsAbsent ==
    \A r \in {"host", "period", "sensor"} :
        ReadCalled(r) =>
            LET err == handler.sent[1].answer.err
            IN  /\ IsNotFound(err) => (state = Null /\ diags = <<>>)
                /\ (err # NilErr /\ ~IsNotFound(err) /\ ~Contains(err, "404")) =>
                       (diags # <<>> /\ state = handler.prior)

\* The part of C27 that the HTTP sensor's Read keeps.
C27_SensorReadTreatsNotFoundAsAbsent ==
    ReadCalled("sensor") =>
        LET err == handler.sent[1].answer.err
        IN  /\ IsNotFound(err) => (state = Null /\ diags = <<>>)
            /\ (err # NilErr /\ ~IsNotFound(err) /\ ~Contains(err, "404")) =>
                   (diags # <<>> /\ state = handler.prior)

\* The one call handler h made was op with the arguments args.
SentOnly(h, op, args) ==
    /\ Len(h.sent) = 1
    /\ h.sent[1].op = op
    /\ h.sent[1].args = args

\* Every call of handler h succeeded.
AllSucceeded(h) == \A i \in 1..Len(h.sent) : h.sent[i].answer.err = NilErr

\* C28: for the global alerts mute resource, after any sequence of handlers:
\* Create and Update have sent SetGlobalAlertMute once, with true exactly when
\* the configuration says enabled = true; Delete has sent
\* SetGlobalAlertMute(false), and the resource is gone from state only if that
\* call succeeded; Read has sent nothing and left the state as it was; and a
\* handler whose call failed left the state as it was.
C28_MuteFollowsConfiguration ==
    (resource = "mute" /\ handler.name # "none") =>
        /\ handler.name \in {"Create", "Update"} =>
               SentOnly(handler, "SetGlobalAlertMute",
                        [enabled |-> handler.plan[1].enabled = Known(TRUE)])
        /\ handler.name = "Delete" =>
               /\ SentOnly(handler, "SetGlobalAlertMute", [enabled |-> FALSE])
               /\ AllSucceeded(handler) <=> state = Null
        /\ handler.name = "Read" => (handler.sent = <<>> /\ state = handler.prior)
        /\ ~AllSucceeded(handler) => (state = handler.prior /\ diags # <<>>)
        /\ state # handler.prior => (handler.sent # <<>> /\ AllSucceeded(handler))

\* A mute configured with enabled = true has been destroyed: Delete sent
\* SetGlobalAlertMute(false), the call succeeded and the state is gone.
C28_Witness ==
    /\ resource = "mute"
    /\ handler.name = "Delete"
    /\ handler.prior = Known([id |-> "global_alerts_mute", enabled |-> Known(TRUE)])
    /\ SentOnly(handler, "SetGlobalAlertMute", [enabled |-> FALSE])
    /\ AllSucceeded(handler)
    /\ state = Null

\* C29: an Update of a host or of an HTTP sensor sends exactly one call when
\* the planned enabled differs from that of the state, the enable operation
\* for true and the disable operation for false, and no call when it is
\* equal; the state it leaves has the id of the prior state, and for a host
\* also its name and test_interval, and differs from the prior state in
\* nothing but enabled.
C29_UpdateChangesOnlyEnabled ==
    (resource \in {"host", "sensor"} /\ handler.name = "Update") =>
        LET prior == handler.prior[1]
            plan == handler.plan[1]
            enable == IF resource = "host" THEN "EnableHostUptimeMonitoring"
                      ELSE "EnableSensorHTTP"
            disable == IF resource = "host" THEN "DisableHostUptimeMonitoring"
                       ELSE "DisableSensorHTTP"
        IN  /\ plan.enabled # prior.enabled =>
                   /\ Len(handler.sent) = 1
                   /\ handler.sent[1].op = IF plan.enabled THEN enable ELSE disable
            /\ plan.enabled = prior.enabled => handler.sent = <<>>
            /\ IsSet(state)
            /\ state[1].id = prior.id
            /\ resource = "host" =>
                   /\ state[1].name = prior.name
                   /\ state[1].test_interval = prior.test_interval
            /\ state[1] \in {prior, [prior EXCEPT !.enabled = plan.enabled]}

\* An enabled host has been disabled in place by one call.
C29_Witness ==
    /\ resource = "host"
    /\ handler.name = "Update"
    /\ handler.prior = Known([id |-> "42", name |-> "web", test_interval |-> 60,
                              enabled |-> TRUE])
    /\ handler.plan[1].enabled = FALSE
    /\ Len(handler.sent) = 1
    /\ handler.sent[1].op = "DisableHostUptimeMonitoring"
    /\ handler.sent[1].args = [id |-> 42]
    /\ handler.sent[1].answer.err = NilErr
    /\ state = Known([id |-> "42", name |-> "web", test_interval |-> 60,
                      enabled |-> FALSE])

\* C30: decoding a period gives one integer ID whatever the wire type of
\* periodid: a string of decimal digits and a JSON number of the same whole
\* value (written with or without ".0") give that value, so "123", 123 and
\* 123.0 all give 123; an empty string, null and an absent periodid give 0
\* without error; any other string gives an error.
C30_PeriodIDNormalised ==
    (fnIn[1] = "UnmarshalJSON" /\ fnOut # <<>>) =>
        LET v == fnIn[2]
            out == fnOut[1]
            whole == {<<"123", 123>>, <<"42", 42>>, <<"0", 0>>}
        IN  /\ \A w \in whole :
                   (\/ v = [type |-> "string", str |-> w[1]]
                    \/ (v.type = "float64" /\ v.json \in {w[1], w[1] \o ".0"}))
                   => out = [ID |-> w[2], err |-> NilErr]
            /\ (v = [type |-> "string", str |-> ""] \/ v.type = "nil")
                   => out = [ID |-> 0, err |-> NilErr]
            /\ (v.type = "string" /\ v.str \notin {"", "123", "42", "0"})
                   => out.err # NilErr

\* The float 123.0 has been decoded to the ID 123.
C30_Witness ==
    /\ fnIn = <<"UnmarshalJSON", [type |-> "float64", tenths |-> 1230, json |-> "123.0"]>>
    /\ fnOut = <<[ID |-> 123, err |-> NilErr]>>

\* C31 (as claimed): in a form-command call every attempt, each retry after a
\* transient failure included, transmits the complete form body: no attempt
\* of a call whose context is live finds the body of its request consumed,
\* so no call returns the error of a request with ContentLength > 0 and an
\* empty body, and a call that has received only transient statuses, fewer
\* than maxRetries+1 of them, has not returned.
C31_EveryAttemptSendsTheForm ==
    \A c \in Calls :
        kind[c] = "Form" =>
            /\ result[c].cause # BodyGoneErr
            /\ (/\ pc[c] = "done"
                /\ ctx[c] = "live"
                /\ requests(c) >= 1
                /\ TransientStatuses(c, requests(c)))
               => requests(c) = maxRetries + 1

\* Call c has come back from limiter.Wait with the token.
TokenObtained(c) == acquired[c] >= 1

UnderWay(c) == pc[c] \in {"wait", "attempt", "sleep"}

\* C33: every call to Do or makeFormRequest that has started eventually
\* returns, whatever the limiter makes it wait and whatever outcomes the
\* server and the transport produce.
C33_EveryCallReturns == \A c \in Calls : UnderWay(c) ~> pc[c] = "done"

\* A call has returned after using all its retries on transient failures.
C33_Witness ==
    \E c \in Calls :
        /\ maxRetries = MaxRetriesB
        /\ pc[c] = "done"
        /\ Len(sleeps[c]) = maxRetries
        /\ result[c].kind \in {"http", "net"}

\* The backoff sleeps of call c lie between lo and maxBackoff, never
\* decrease, and stay at maxBackoff once they are there.
SleepsWithin(c, lo) ==
    \A i \in 1..Len(sleeps[c]) :
        /\ lo <= sleeps[c][i]
        /\ sleeps[c][i] <= maxBackoff
        /\ i > 1 => /\ sleeps[c][i - 1] <= sleeps[c][i]
                    /\ sleeps[c][i - 1] = maxBackoff => sleeps[c][i] = maxBackoff

MultiplierAtLeastOne == backoffMultiplier[1] >= backoffMultiplier[2]

C35_CreateHostThenMonitoring ==
    (resource = "host" /\ handler.name = "Create") =>
        LET plan == handler.plan[1]
            sent == handler.sent
            created == sent[1].answer
        IN  /\ Len(sent) >= 1
            /\ sent[1].op = "CreateHost"
            /\ created.err # NilErr => Len(sent) = 1
            /\ created.err = NilErr =>
                   /\ Len(sent) = 2
                   /\ sent[2].op = IF plan.enabled THEN "EnableHostUptimeMonitoring"
                                   ELSE "DisableHostUptimeMonitoring"
                   /\ sent[2].args = [id |-> created.entity[1].ID]
            /\ IsSet(state) <=> AllSucceeded(handler)
            /\ IsSet(state) =>
                   /\ Len(sent) = 2
                   /\ state[1].enabled = plan.enabled
                   /\ state[1].id = Itoa(created.entity[1].ID)
                   /\ diags = <<>>
            /\ ~IsSet(state) => diags # <<>>

\* A host planned with enabled = false has been created and then disabled,
\* and is in state.
C35_Witness ==
    /\ resource = "host"
    /\ handler.name = "Create"
    /\ handler.plan[1].enabled = FALSE
    /\ Len(handler.sent) = 2
    /\ handler.sent[1].op = "CreateHost"
    /\ handler.sent[2].op = "DisableHostUptimeMonitoring"
    /\ handler.sent[2].args = [id |-> 42]
    /\ AllSucceeded(handler)
    /\ state = Known([id |-> "42", name |-> "web", test_interval |-> 60, enabled |-> FALSE])

====
